---- MODULE Spec2Model ----
(***************************************************************************)
(* Model of the persistent-connection mail submission service:             *)
(*   src/src/service.rs       MailService (driver), SmtpSetup              *)
(*   src/src/smtp_wrapper.rs  ConnectionState, CompletionState             *)
(*   src/src/handle.rs        MailServiceHandle, MailEnqueueFuture,        *)
(*                            MailResponseFuture                           *)
(*   src/src/stop_handle.rs   StopServiceHandle                            *)
(*   src/src/test.rs          TestSetup::connect                           *)
(* The encoding pipeline (stream_encode_mail) is called by                 *)
(* MailService::new but its body is not part of the sources; it is         *)
(* modelled from its description (bounded, unordered completion) and the   *)
(* item type the driver consumes (service.rs:85).                          *)
(***************************************************************************)
EXTENDS Integers, Sequences, FiniteSets, TLC

\* ---------------------------------------------------------------- bounds
MaxReq == 2             \* requests ever created
MaxHandles == 2          \* live handles (clones) at any time
MaxConnects == 2         \* TestSetup.nr_of_ok_connection_attemps at start
EncodingBuffer == 2      \* value returned by mail_encoding_buffer_size
EnqueuingBuffer == 0    \* value returned by mail_enqueuing_buffer_size
MaxOps == 3             \* futures collected into one ResolveAll
MaxMailboxes == 2       \* mailboxes in one From or To header
MaxMails == 3           \* mails given to one send_encoded_mails
MaxCalls == 5           \* operations called directly on one ConnectionState
MaxMsgs == 4            \* messages ever sent into one AutoClose stream

Reqs == 1 .. MaxReq
None == 0                \* Option::None for a request id / reply slot owner
EndOfStream == 0 - 1     \* Ready(None) of the request stream

VARIABLES
    connection,      \* MailService.connection : ConnectionState
    tx_of_pending,   \* MailService.tx_of_pending : request whose slot is pending
    stop_flag,       \* MailService.stop_handle (the AtomicBool)
    driver,          \* the driver future: "running", "ok" (Ready), "err" (Err)
    alive,           \* FALSE once the MailService value has been dropped
    connects_left,   \* TestSetup.nr_of_ok_connection_attemps
    queue,           \* mpsc channel between handles and service
    encoding,        \* requests whose encoding is in progress in the pipeline
    ready,           \* requests whose encoding completed, in completion order
    peeked,          \* Peekable's peeked item
    handles,         \* live, idle MailServiceHandle values
    subm,            \* per request: state of its MailEnqueueFuture
    enc_ok,          \* per request: does its envelope/composition/encoding succeed
    slot,            \* per request: content of its oneshot reply slot
    writes,          \* per request: number of writes made to its reply slot
    observed,        \* per request: what its MailResponseFuture resolved to
    late,            \* per request: submitted after a send had failed with an I/O error
    net,             \* operations issued towards the server, in order
    stop_requested,  \* stop() was called from outside on stop_handle()
    suspended,       \* requests whose MailEnqueueFuture::poll returned NotReady
    api,             \* last ConnectionState operation called directly, its result
    resolve_all,     \* a ResolveAll future, its input futures and its last poll
    derive,          \* a mail's headers and the envelop data derived from them
    batch,           \* one run of send_encoded_mails
    auto_close       \* an AutoClose stream, its senders and what it yielded

svc_vars == << connection, tx_of_pending, stop_flag, driver, alive, connects_left,
               queue, encoding, ready, peeked, handles, subm, enc_ok, slot,
               writes, observed, late, net, stop_requested, suspended >>
lib_vars == << api, resolve_all, derive, batch, auto_close >>
vars == << svc_vars, lib_vars >>

\* ------------------------------------------------- ConnectionState (enum)
\* fut: for Connecting the result the connect future will resolve to
\* ("ok"/"err"); for Closing which future is boxed ("quit", or the connect
\* future chained with quit: "ok_quit"/"err_quit"); req: for ConnectionInUse
\* the request whose bytes were handed to send_mail.
CS(tag, fut, req, term) ==
    [tag |-> tag, fut |-> fut, req |-> req, is_termination |-> term]

Idle == CS("Idle", "none", None, FALSE)
Connecting(f) == CS("Connecting", f, None, FALSE)
Connected == CS("Connected", "none", None, FALSE)
ConnectionInUse(r) == CS("ConnectionInUse", "send", r, FALSE)
Closing(f, t) == CS("Closing", f, None, t)
Terminated == CS("Terminated", "none", None, FALSE)
Poison == CS("Poison", "none", None, FALSE)

\* change_into_connecting: replaces whatever state there is
change_into_connecting(state, con_fut) == Connecting(con_fut)

\* The results the future held by `state` can give when polled.
\* Connecting: decided by the connect future; ConnectionInUse: the server
\* acknowledges ("Ok"), rejects ("Smtp") or the transport breaks ("Err");
\* Closing: the code has arms for NotReady and Ready only; a connect
\* future chained with quit (fut.and_then(|con| con.quit())) can also
\* answer NotReady after its connect part resolved and the quit was issued
\* ("Chained").
FutPoll(state) ==
    CASE state.tag = "Connecting" ->
            {"NotReady", IF state.fut = "ok" THEN "Ok" ELSE "Err"}
      [] state.tag = "ConnectionInUse" -> {"NotReady", "Ok", "Smtp", "Err"}
      [] state.tag = "Closing" ->
            IF state.fut = "ok_quit" THEN {"NotReady", "Chained", "Ok"}
            ELSE {"NotReady", "Ok"}
      [] OTHER -> {"Ok"}

\* Variant: the outcome of a completed send is lost, the connection is
\* reported usable without it.
poll_state_completion_drops_result(state, p) ==
    IF state.tag = "ConnectionInUse" /\ p \in {"Ok", "Smtp"}
    THEN [state |-> Connected, result |-> "Usable_None"]
    ELSE IF state.tag = "ConnectionInUse"
    THEN IF p = "NotReady" THEN [state |-> state, result |-> "NotReady"]
         ELSE [state |-> Terminated, result |-> "Err_A"]
    ELSE IF state.tag = "Connecting"
    THEN IF p = "NotReady" THEN [state |-> state, result |-> "NotReady"]
         ELSE IF p = "Ok" THEN [state |-> Connected, result |-> "Usable_None"]
         ELSE [state |-> Terminated, result |-> "Err_B"]
    ELSE IF state.tag = "Closing"
    THEN IF p = "NotReady" THEN [state |-> state, result |-> "NotReady"]
         ELSE IF p = "Chained"
         THEN [state |-> Closing("quit", state.is_termination),
               result |-> "NotReady"]
         ELSE IF state.is_termination
              THEN [state |-> Terminated, result |-> "Terminated"]
              ELSE [state |-> Idle, result |-> "Idle"]
    ELSE IF state.tag = "Idle" THEN [state |-> Idle, result |-> "Idle"]
    ELSE IF state.tag = "Connected"
    THEN [state |-> Connected, result |-> "Usable_None"]
    ELSE [state |-> Terminated, result |-> "Terminated"]

\* Variant: the error paths return before the new state is written back.
poll_state_completion_early_return(state, p) ==
    IF state.tag \in {"Connecting", "ConnectionInUse"} /\ p = "Err"
    THEN [state |-> Poison,
          result |-> IF state.tag = "Connecting" THEN "Err_B" ELSE "Err_A"]
    ELSE IF state.tag = "Connecting"
    THEN IF p = "NotReady" THEN [state |-> state, result |-> "NotReady"]
         ELSE [state |-> Connected, result |-> "Usable_None"]
    ELSE IF state.tag = "ConnectionInUse"
    THEN IF p = "NotReady" THEN [state |-> state, result |-> "NotReady"]
         ELSE [state |-> Connected,
               result |-> IF p = "Ok" THEN "Usable_Ok" ELSE "Usable_Smtp"]
    ELSE IF state.tag = "Closing"
    THEN IF p = "NotReady" THEN [state |-> state, result |-> "NotReady"]
         ELSE IF p = "Chained"
         THEN [state |-> Closing("quit", state.is_termination),
               result |-> "NotReady"]
         ELSE IF state.is_termination
              THEN [state |-> Terminated, result |-> "Terminated"]
              ELSE [state |-> Idle, result |-> "Idle"]
    ELSE IF state.tag = "Idle" THEN [state |-> Idle, result |-> "Idle"]
    ELSE IF state.tag = "Connected"
    THEN [state |-> Connected, result |-> "Usable_None"]
    ELSE IF state.tag = "Terminated"
    THEN [state |-> Terminated, result |-> "Terminated"]
    ELSE [state |-> Poison, result |-> "panic"]

\* Variant: a send the server rejected gives the connection up: the state
\* is reset to Idle and the driver has to connect again.
poll_state_completion_reject_resets(state, p) ==
    IF state.tag = "ConnectionInUse" /\ p = "Smtp"
    THEN [state |-> Idle, result |-> "Idle"]
    ELSE IF state.tag = "ConnectionInUse"
    THEN IF p = "NotReady" THEN [state |-> state, result |-> "NotReady"]
         ELSE IF p = "Ok" THEN [state |-> Connected, result |-> "Usable_Ok"]
         ELSE [state |-> Terminated, result |-> "Err_A"]
    ELSE IF state.tag = "Connecting"
    THEN IF p = "NotReady" THEN [state |-> state, result |-> "NotReady"]
         ELSE IF p = "Ok" THEN [state |-> Connected, result |-> "Usable_None"]
         ELSE [state |-> Terminated, result |-> "Err_B"]
    ELSE IF state.tag = "Closing"
    THEN IF p = "NotReady" THEN [state |-> state, result |-> "NotReady"]
         ELSE IF p = "Chained"
         THEN [state |-> Closing("quit", state.is_termination),
               result |-> "NotReady"]
         ELSE IF state.is_termination
              THEN [state |-> Terminated, result |-> "Terminated"]
              ELSE [state |-> Idle, result |-> "Idle"]
    ELSE IF state.tag = "Idle" THEN [state |-> Idle, result |-> "Idle"]
    ELSE IF state.tag = "Connected"
    THEN [state |-> Connected, result |-> "Usable_None"]
    ELSE [state |-> Terminated, result |-> "Terminated"]

\* Variant: a send that failed on the transport closes the connection
\* with a quit before giving it up.
poll_state_completion_quits_on_error(state, p) ==
    IF state.tag = "ConnectionInUse" /\ p = "Err"
    THEN [state |-> Closing("quit", TRUE), result |-> "Err_A"]
    ELSE IF state.tag = "ConnectionInUse"
    THEN IF p = "NotReady" THEN [state |-> state, result |-> "NotReady"]
         ELSE [state |-> Connected,
               result |-> IF p = "Ok" THEN "Usable_Ok" ELSE "Usable_Smtp"]
    ELSE IF state.tag = "Connecting"
    THEN IF p = "NotReady" THEN [state |-> state, result |-> "NotReady"]
         ELSE IF p = "Ok" THEN [state |-> Connected, result |-> "Usable_None"]
         ELSE [state |-> Terminated, result |-> "Err_B"]
    ELSE IF state.tag = "Closing"
    THEN IF p = "NotReady" THEN [state |-> state, result |-> "NotReady"]
         ELSE IF p = "Chained"
         THEN [state |-> Closing("quit", state.is_termination),
               result |-> "NotReady"]
         ELSE IF state.is_termination
              THEN [state |-> Terminated, result |-> "Terminated"]
              ELSE [state |-> Idle, result |-> "Idle"]
    ELSE IF state.tag = "Idle" THEN [state |-> Idle, result |-> "Idle"]
    ELSE IF state.tag = "Connected"
    THEN [state |-> Connected, result |-> "Usable_None"]
    ELSE [state |-> Terminated, result |-> "Terminated"]

\* Variant: a completed quit always terminates, whatever the flag says.
poll_state_completion_close_terminates(state, p) ==
    IF state.tag = "Closing"
    THEN IF p = "NotReady" THEN [state |-> state, result |-> "NotReady"]
         ELSE IF p = "Chained"
         THEN [state |-> Closing("quit", state.is_termination),
               result |-> "NotReady"]
         ELSE [state |-> Terminated, result |-> "Terminated"]
    ELSE IF state.tag = "Connecting"
    THEN IF p = "NotReady" THEN [state |-> state, result |-> "NotReady"]
         ELSE IF p = "Ok" THEN [state |-> Connected, result |-> "Usable_None"]
         ELSE [state |-> Terminated, result |-> "Err_B"]
    ELSE IF state.tag = "ConnectionInUse"
    THEN IF p = "NotReady" THEN [state |-> state, result |-> "NotReady"]
         ELSE IF p = "Ok" THEN [state |-> Connected, result |-> "Usable_Ok"]
         ELSE IF p = "Smtp" THEN [state |-> Connected, result |-> "Usable_Smtp"]
         ELSE [state |-> Terminated, result |-> "Err_A"]
    ELSE IF state.tag = "Idle" THEN [state |-> Idle, result |-> "Idle"]
    ELSE IF state.tag = "Connected"
    THEN [state |-> Connected, result |-> "Usable_None"]
    ELSE IF state.tag = "Terminated"
    THEN [state |-> Terminated, result |-> "Terminated"]
    ELSE [state |-> Poison, result |-> "panic"]

\* Variant: a resolved connect is reported usable but the state is left
\* Connecting.
poll_state_completion_keeps_connecting(state, p) ==
    IF state.tag = "Connecting"
    THEN IF p = "NotReady" THEN [state |-> state, result |-> "NotReady"]
         ELSE IF p = "Ok" THEN [state |-> state, result |-> "Usable_None"]
         ELSE [state |-> Terminated, result |-> "Err_B"]
    ELSE IF state.tag = "ConnectionInUse"
    THEN IF p = "NotReady" THEN [state |-> state, result |-> "NotReady"]
         ELSE IF p = "Ok" THEN [state |-> Connected, result |-> "Usable_Ok"]
         ELSE IF p = "Smtp" THEN [state |-> Connected, result |-> "Usable_Smtp"]
         ELSE [state |-> Terminated, result |-> "Err_A"]
    ELSE IF state.tag = "Closing"
    THEN IF p = "NotReady" THEN [state |-> state, result |-> "NotReady"]
         ELSE IF p = "Chained"
         THEN [state |-> Closing("quit", state.is_termination),
               result |-> "NotReady"]
         ELSE IF state.is_termination
              THEN [state |-> Terminated, result |-> "Terminated"]
              ELSE [state |-> Idle, result |-> "Idle"]
    ELSE IF state.tag = "Idle" THEN [state |-> Idle, result |-> "Idle"]
    ELSE IF state.tag = "Connected"
    THEN [state |-> Connected, result |-> "Usable_None"]
    ELSE IF state.tag = "Terminated"
    THEN [state |-> Terminated, result |-> "Terminated"]
    ELSE [state |-> Poison, result |-> "panic"]

\* Variant: a failed connect or send resets the state to Idle (so that the
\* driver connects again) instead of terminating.
poll_state_completion_reset(state, p) ==
    IF state.tag \in {"Connecting", "ConnectionInUse"} /\ p = "Err"
    THEN [state |-> Idle, result |-> "Idle"]
    ELSE IF state.tag = "Connecting"
    THEN IF p = "NotReady" THEN [state |-> state, result |-> "NotReady"]
         ELSE [state |-> Connected, result |-> "Usable_None"]
    ELSE IF state.tag = "ConnectionInUse"
    THEN IF p = "NotReady" THEN [state |-> state, result |-> "NotReady"]
         ELSE [state |-> Connected,
               result |-> IF p = "Ok" THEN "Usable_Ok" ELSE "Usable_Smtp"]
    ELSE IF state.tag = "Closing"
    THEN IF p = "NotReady" THEN [state |-> state, result |-> "NotReady"]
         ELSE IF p = "Chained"
         THEN [state |-> Closing("quit", state.is_termination),
               result |-> "NotReady"]
         ELSE IF state.is_termination
              THEN [state |-> Terminated, result |-> "Terminated"]
              ELSE [state |-> Idle, result |-> "Idle"]
    ELSE IF state.tag = "Idle" THEN [state |-> Idle, result |-> "Idle"]
    ELSE IF state.tag = "Connected"
    THEN [state |-> Connected, result |-> "Usable_None"]
    ELSE [state |-> Terminated, result |-> "Terminated"]

\* poll_state_completion: p is the poll result of the inner future.
\* result: "NotReady", "Idle", "Usable_None", "Usable_Ok", "Usable_Smtp",
\* "Terminated", "Err_A" (io error of a send), "Err_B" (connect error).
poll_state_completion(state, p) ==
    CASE state.tag = "Idle" -> [state |-> Idle, result |-> "Idle"]
      [] state.tag = "Connected" -> [state |-> Connected, result |-> "Usable_None"]
      [] state.tag = "Connecting" ->
            IF p = "NotReady" THEN [state |-> state, result |-> "NotReady"]
            ELSE IF p = "Ok" THEN [state |-> Connected, result |-> "Usable_None"]
            ELSE [state |-> Terminated, result |-> "Err_B"]
      [] state.tag = "ConnectionInUse" ->
            IF p = "NotReady" THEN [state |-> state, result |-> "NotReady"]
            ELSE IF p = "Ok" THEN [state |-> Connected, result |-> "Usable_Ok"]
            ELSE IF p = "Smtp" THEN [state |-> Connected, result |-> "Usable_Smtp"]
            ELSE [state |-> Terminated, result |-> "Err_A"]
      [] state.tag = "Closing" ->
            IF p = "NotReady" THEN [state |-> state, result |-> "NotReady"]
            ELSE IF p = "Chained"
            THEN [state |-> Closing("quit", state.is_termination),
                  result |-> "NotReady"]
            ELSE IF state.is_termination
                 THEN [state |-> Terminated, result |-> "Terminated"]
                 ELSE [state |-> Idle, result |-> "Idle"]
      [] state.tag = "Terminated" -> [state |-> Terminated, result |-> "Terminated"]
      [] OTHER -> [state |-> Poison, result |-> "panic"]

\* ConnectionState::send_mail: only Connected starts a send
send_mail(state, r) ==
    IF state.tag = "Connected"
    THEN [state |-> ConnectionInUse(r), result |-> "Ok"]
    ELSE IF state.tag = "Poison"
    THEN [state |-> Poison, result |-> "panic"]
    ELSE [state |-> state, result |-> "Err"]

\* Variant: closing while a send is outstanding abandons the send and
\* quits.
close_con_cancels_send(state, is_termination) ==
    CASE state.tag = "Idle" ->
            [state |-> IF is_termination THEN Terminated ELSE Idle, result |-> "Ok"]
      [] state.tag = "Connecting" ->
            [state |-> Closing(IF state.fut = "ok" THEN "ok_quit" ELSE "err_quit",
                               is_termination),
             result |-> "Ok"]
      [] state.tag \in {"Connected", "ConnectionInUse"} ->
            [state |-> Closing("quit", is_termination), result |-> "Ok"]
      [] state.tag = "Closing" ->
            [state |-> Closing(state.fut, IF is_termination THEN TRUE
                                          ELSE state.is_termination),
             result |-> "Ok"]
      [] state.tag = "Terminated" -> [state |-> Terminated, result |-> "Ok"]
      [] OTHER -> [state |-> Poison, result |-> "panic"]

\* Variant: the Closing state is built without the requested flag.
close_con_forgets_flag(state, is_termination) ==
    CASE state.tag = "Idle" ->
            [state |-> IF is_termination THEN Terminated ELSE Idle, result |-> "Ok"]
      [] state.tag = "Connecting" ->
            [state |-> Closing(IF state.fut = "ok" THEN "ok_quit" ELSE "err_quit",
                               FALSE),
             result |-> "Ok"]
      [] state.tag = "Connected" ->
            [state |-> Closing("quit", FALSE), result |-> "Ok"]
      [] state.tag = "ConnectionInUse" -> [state |-> state, result |-> "Err"]
      [] state.tag = "Closing" ->
            [state |-> Closing(state.fut, IF is_termination THEN TRUE
                                          ELSE state.is_termination),
             result |-> "Ok"]
      [] state.tag = "Terminated" -> [state |-> Terminated, result |-> "Ok"]
      [] OTHER -> [state |-> Poison, result |-> "panic"]

\* Variant: Terminated is closed like Idle, a plain close makes it Idle.
close_con_reopens(state, is_termination) ==
    CASE state.tag \in {"Idle", "Terminated"} ->
            [state |-> IF is_termination THEN Terminated ELSE Idle, result |-> "Ok"]
      [] state.tag = "Connecting" ->
            [state |-> Closing(IF state.fut = "ok" THEN "ok_quit" ELSE "err_quit",
                               is_termination),
             result |-> "Ok"]
      [] state.tag = "Connected" ->
            [state |-> Closing("quit", is_termination), result |-> "Ok"]
      [] state.tag = "ConnectionInUse" -> [state |-> state, result |-> "Err"]
      [] state.tag = "Closing" ->
            [state |-> Closing(state.fut, IF is_termination THEN TRUE
                                          ELSE state.is_termination),
             result |-> "Ok"]
      [] OTHER -> [state |-> Poison, result |-> "panic"]

\* Variant: closing an Idle state goes through a quit as well.
close_con_idle_quits(state, is_termination) ==
    CASE state.tag \in {"Idle", "Connected"} ->
            [state |-> Closing("quit", is_termination), result |-> "Ok"]
      [] state.tag = "Connecting" ->
            [state |-> Closing(IF state.fut = "ok" THEN "ok_quit" ELSE "err_quit",
                               is_termination),
             result |-> "Ok"]
      [] state.tag = "ConnectionInUse" -> [state |-> state, result |-> "Err"]
      [] state.tag = "Closing" ->
            [state |-> Closing(state.fut, IF is_termination THEN TRUE
                                          ELSE state.is_termination),
             result |-> "Ok"]
      [] state.tag = "Terminated" -> [state |-> Terminated, result |-> "Ok"]
      [] OTHER -> [state |-> Poison, result |-> "panic"]

\* Variant: a request on a pending quit sets the flag to its own kind.
close_con_overrides_flag(state, is_termination) ==
    CASE state.tag = "Idle" ->
            [state |-> IF is_termination THEN Terminated ELSE Idle, result |-> "Ok"]
      [] state.tag = "Connecting" ->
            [state |-> Closing(IF state.fut = "ok" THEN "ok_quit" ELSE "err_quit",
                               is_termination),
             result |-> "Ok"]
      [] state.tag = "Connected" ->
            [state |-> Closing("quit", is_termination), result |-> "Ok"]
      [] state.tag = "ConnectionInUse" -> [state |-> state, result |-> "Err"]
      [] state.tag = "Closing" ->
            [state |-> Closing(state.fut, is_termination), result |-> "Ok"]
      [] state.tag = "Terminated" -> [state |-> Terminated, result |-> "Ok"]
      [] OTHER -> [state |-> Poison, result |-> "panic"]

\* _close_con
close_con(state, is_termination) ==
    CASE state.tag = "Idle" ->
            [state |-> IF is_termination THEN Terminated ELSE Idle, result |-> "Ok"]
      [] state.tag = "Connecting" ->
            [state |-> Closing(IF state.fut = "ok" THEN "ok_quit" ELSE "err_quit",
                               is_termination),
             result |-> "Ok"]
      [] state.tag = "Connected" ->
            [state |-> Closing("quit", is_termination), result |-> "Ok"]
      [] state.tag = "ConnectionInUse" -> [state |-> state, result |-> "Err"]
      [] state.tag = "Closing" ->
            [state |-> Closing(state.fut, IF is_termination THEN TRUE
                                          ELSE state.is_termination),
             result |-> "Ok"]
      [] state.tag = "Terminated" -> [state |-> Terminated, result |-> "Ok"]
      [] OTHER -> [state |-> Poison, result |-> "panic"]

close_current(state) == close_con(state, FALSE)
terminate(state) == close_con(state, TRUE)

\* ------------------------------------------------------------ wire log
NetEvent(op, r) == [op |-> op, req |-> r]

\* what the server side sees fail when the inner future is polled with p
NetOnPoll(state, p) ==
    IF p = "Err" /\ state.tag = "ConnectionInUse"
    THEN << NetEvent("io_error", state.req) >>
    ELSE IF p = "Smtp" /\ state.tag = "ConnectionInUse"
    THEN << NetEvent("reject", state.req) >>
    ELSE IF p = "Err" /\ state.tag = "Connecting"
    THEN << NetEvent("connect_failed", None) >>
    ELSE IF state.tag = "Closing" /\ state.fut = "ok_quit" /\ p \in {"Chained", "Ok"}
    THEN << NetEvent("quit", None) >>   \* and_then: the connect part resolved
    ELSE << >>

\* con.quit() is called right away only when closing a Connected state
NetOnClose(state) ==
    IF state.tag = "Connected" THEN << NetEvent("quit", None) >> ELSE << >>

\* the Ok((body, envelop)) item of request r: request r has r recipients
BodyOf(r) == << "body", r >>
EnvelopOf(r) == [from |-> << "from", r >>,
                 to |-> [i \in 1 .. r |-> << "to", r, i >>]]

\* fn send_mail(con, body_bytes, envelop): the commands chained on the
\* connection for one mail
send_mail_cmds(body_bytes, envelop) ==
    << [cmd |-> "MAIL", arg |-> envelop.from] >>
    \o [i \in 1 .. Len(envelop.to) |-> [cmd |-> "RCPT", arg |-> envelop.to[i]]]

Seen(op) == \E i \in 1 .. Len(net) : net[i].op = op
Count(op) == Cardinality({i \in 1 .. Len(net) : net[i].op = op})
SentReqs == {net[i].req : i \in {j \in 1 .. Len(net) : net[j].op = "send"}}
IoFailedReqs == {net[i].req : i \in {j \in 1 .. Len(net) : net[j].op = "io_error"}}
RejectedReqs == {net[i].req : i \in {j \in 1 .. Len(net) : net[j].op = "reject"}}

\* the commands the server has received for request r when its send has
\* completed with an acknowledgement
CommandsOf(r) ==
    IF r \in SentReqs THEN send_mail_cmds(BodyOf(r), EnvelopOf(r)) ELSE << >>

\* ------------------------------------------------ ingress queue (mpsc)
Pending == {r \in Reqs : subm[r] = "pending"}

\* every idle handle and every pending MailEnqueueFuture owns a Sender
Senders == handles + Cardinality(Pending)

\* mpsc::channel(mail_enqueuing_buffer_size()): the channel holds the
\* buffer plus one guaranteed slot per sender
QueueCapacity == EnqueuingBuffer + Senders

\* the receiver yields Ready(None) once every sender is gone and it is empty
IngressClosed == Senders = 0

\* ------------------------------- encoding pipeline (stream_encode_mail)
\* pull requests from the queue while fewer than mail_encoding_buffer_size
\* encodings are held by the pipeline
RECURSIVE Fill(_, _, _)
Fill(q, e, n) ==
    IF q # << >> /\ Cardinality(e) + n < EncodingBuffer
    THEN Fill(Tail(q), e \cup {Head(q)}, n)
    ELSE [queue |-> q, encoding |-> e]

\* one poll of the pipeline stream: item is a request whose encoding
\* completed, EndOfStream, or None for NotReady
StreamPoll ==
    LET f == Fill(queue, encoding, Len(ready))
    IN  IF ready # << >>
        THEN [item |-> Head(ready), queue |-> f.queue, encoding |-> f.encoding,
              ready |-> Tail(ready), peeked |-> None]
        ELSE IF f.queue = << >> /\ f.encoding = {} /\ IngressClosed
        THEN [item |-> EndOfStream, queue |-> f.queue, encoding |-> f.encoding,
              ready |-> ready, peeked |-> None]
        ELSE [item |-> None, queue |-> f.queue, encoding |-> f.encoding,
              ready |-> ready, peeked |-> None]

\* Peekable::poll (self.rx.poll()): the peeked item first
rx_poll ==
    IF peeked # None
    THEN [item |-> peeked, queue |-> queue, encoding |-> encoding,
          ready |-> ready, peeked |-> None]
    ELSE StreamPoll

\* Variant: the Idle arm takes the item out of the stream instead of
\* peeking at it.
rx_peek_consuming == rx_poll

\* Peekable::peek (self.rx.peek()): keeps the item for the next poll
rx_peek ==
    IF peeked # None
    THEN [item |-> peeked, queue |-> queue, encoding |-> encoding,
          ready |-> ready, peeked |-> peeked]
    ELSE LET s == StreamPoll
         IN  IF s.item \in Reqs THEN [s EXCEPT !.peeked = s.item] ELSE s

\* ---------------------------------------------------------- TestSetup
\* TestSetup::connect: the future it returns, and the attempts left after
setup_connect(left) ==
    IF left < 1 THEN [fut |-> "err", left |-> left]
    ELSE [fut |-> "ok", left |-> left - 1]

\* ------------------------------------------------------- MailService
\* Variant: stops the connection without setting the stop flag.
start_stopping_now_keeps_flag(state) ==
    [stop_flag |-> stop_flag, close |-> terminate(state)]

\* Variant: sets the stop flag and leaves the connection as it is.
start_stopping_now_flag_only(state) ==
    [stop_flag |-> TRUE, close |-> [state |-> state, result |-> "Ok"]]

\* Variant: stops with a plain close instead of a termination.
start_stopping_now_close(state) ==
    [stop_flag |-> TRUE, close |-> close_con(state, FALSE)]

\* start_stopping_now: set the stop flag, then terminate the connection
start_stopping_now(state) ==
    [stop_flag |-> TRUE, close |-> terminate(state)]

\* Variant: the reply slot of the request being sent is not remembered.
transmit_forgets_tx(state, r, ok, tx) ==
    IF ok
    THEN [send |-> send_mail(state, r), sent |-> TRUE, tx_of_pending |-> tx,
          reply |-> "none"]
    ELSE [send |-> [state |-> state, result |-> "Ok"], sent |-> FALSE,
          tx_of_pending |-> tx, reply |-> "Mail"]

\* Variant: the Err arm also records the request as the pending one.
transmit_err_marks_pending(state, r, ok, tx) ==
    IF ok
    THEN [send |-> send_mail(state, r), sent |-> TRUE, tx_of_pending |-> r,
          reply |-> "none"]
    ELSE [send |-> [state |-> state, result |-> "Ok"], sent |-> FALSE,
          tx_of_pending |-> r, reply |-> "Mail"]

\* Variant: the Err arm falls through into the send.
transmit_fallthrough(state, r, ok, tx) ==
    [send |-> send_mail(state, r), sent |-> TRUE, tx_of_pending |-> r,
     reply |-> IF ok THEN "none" ELSE "Mail"]

\* Variant: an encoding error gives the connection up.
transmit_err_terminates(state, r, ok, tx) ==
    IF ok
    THEN [send |-> send_mail(state, r), sent |-> TRUE, tx_of_pending |-> r,
          reply |-> "none"]
    ELSE [send |-> [state |-> Terminated, result |-> "Ok"], sent |-> FALSE,
          tx_of_pending |-> tx, reply |-> "Mail"]

\* poll_next_request, step 3: start transmitting / send the error back.
\* ok: the pipeline item is Ok((body, envelop)); tx: current tx_of_pending.
\* reply: what is written into the request's own slot ("none": nothing).
transmit(state, r, ok, tx) ==
    IF ok
    THEN [send |-> send_mail(state, r), sent |-> TRUE, tx_of_pending |-> r,
          reply |-> "none"]
    ELSE [send |-> [state |-> state, result |-> "Ok"], sent |-> FALSE,
          tx_of_pending |-> tx, reply |-> "Mail"]

\* the value the driver hands to tx.send for a completed send
MailResult(result) == IF result = "Usable_Ok" THEN "Ack" ELSE "Smtp"

\* oneshot::Sender::send on the slot of request r
WriteSlot(sl, r, v) == [sl EXCEPT ![r] = v]
CountWrite(wr, r) == [wr EXCEPT ![r] = @ + 1]

\* the caller of request r has dropped its MailResponseFuture
ReceiverGone(r) == observed[r] = "gone"

\* tx.send(value) as the driver calls it: a oneshot whose receiver is gone
\* hands the value back as Err and stores nothing
tx_send(sl, r, v) ==
    IF ReceiverGone(r) THEN [slot |-> sl, result |-> "Err"]
    ELSE [slot |-> WriteSlot(sl, r, v), result |-> "Ok"]

\* Variant: the driver insists on the write having succeeded.
discard_send_result_expects_ok(result) ==
    IF result = "Err" THEN "panic" ELSE "running"

\* `let _ = tx.send(..)`: the result of the write is dropped, the driver
\* goes on whatever it was
discard_send_result(result) == "running"

\* Variant: the pending slot is not among what the service owns.
ServiceOwned_without_pending ==
    ({queue[i] : i \in 1 .. Len(queue)} \cup encoding
        \cup {ready[i] : i \in 1 .. Len(ready)} \cup {peeked})
    \ {None}

\* the senders (reply slots) owned by the MailService value: those queued
\* in or held by rx, and tx_of_pending
ServiceOwned ==
    ({queue[i] : i \in 1 .. Len(queue)} \cup encoding
        \cup {ready[i] : i \in 1 .. Len(ready)} \cup {peeked, tx_of_pending})
    \ {None}

\* ------------------------------------------------------------- actions
Init ==
    /\ connection = Idle
    /\ tx_of_pending = None
    /\ stop_flag = FALSE
    /\ driver = "running"
    /\ alive = TRUE
    /\ connects_left \in 0 .. MaxConnects
    /\ queue = << >>
    /\ encoding = {}
    /\ ready = << >>
    /\ peeked = None
    /\ handles = 1
    /\ subm = [r \in Reqs |-> "none"]
    /\ enc_ok = [r \in Reqs |-> TRUE]
    /\ slot = [r \in Reqs |-> "empty"]
    /\ writes = [r \in Reqs |-> 0]
    /\ observed = [r \in Reqs |-> "none"]
    /\ late = [r \in Reqs |-> FALSE]
    /\ net = << >>
    /\ stop_requested = FALSE
    /\ suspended = {}
    /\ api = None /\ resolve_all = None /\ derive = None /\ batch = None
    /\ auto_close = None

handle_vars == << handles, subm, enc_ok, observed, late, suspended >>
pipe_vars == << queue, encoding, ready, peeked >>
drv_vars == << connection, tx_of_pending, stop_flag, driver, connects_left, net >>

\* MailServiceHandle::clone
HandleClone ==
    /\ UNCHANGED lib_vars
    /\ handles >= 1 /\ Senders < MaxHandles
    /\ handles' = handles + 1
    /\ UNCHANGED << drv_vars, pipe_vars, alive, subm, enc_ok, slot, writes,
                    observed, late, stop_requested, suspended >>

\* drop of a MailServiceHandle
HandleDrop ==
    /\ UNCHANGED lib_vars
    /\ handles >= 1
    /\ handles' = handles - 1
    /\ UNCHANGED << drv_vars, pipe_vars, alive, subm, enc_ok, slot, writes,
                    observed, late, stop_requested, suspended >>

\* MailServiceHandle::send_mail: consumes the handle, creates the reply slot
\* and the MailEnqueueFuture; ok is whether the mail of the request encodes
handle_send_mail(r, ok) ==
    /\ UNCHANGED lib_vars
    /\ handles >= 1
    /\ subm[r] = "none"
    /\ \A q \in Reqs : q < r => subm[q] # "none"
    /\ handles' = handles - 1
    /\ subm' = [subm EXCEPT ![r] = "pending"]
    /\ enc_ok' = [enc_ok EXCEPT ![r] = ok]
    /\ late' = [late EXCEPT ![r] = Seen("io_error")]
    /\ UNCHANGED << drv_vars, pipe_vars, alive, slot, writes, observed,
                    stop_requested, suspended >>

\* Variant: a full queue is reported like a dropped receiver.
EnqueueResult_full_fails(receiver_gone, has_room) ==
    IF receiver_gone \/ ~has_room THEN "DriverDropped" ELSE "accepted"

\* Variant: the sender enqueues whether or not the channel has room.
EnqueueResult_ignores_capacity(receiver_gone, has_room) ==
    IF receiver_gone THEN "DriverDropped" ELSE "accepted"

\* result of polling the Send future of the mpsc sender
EnqueueResult(receiver_gone, has_room) ==
    IF receiver_gone THEN "DriverDropped"
    ELSE IF has_room THEN "accepted"
    ELSE "pending"

\* MailEnqueueFuture::poll
MailEnqueueFuture_poll(r) ==
    /\ UNCHANGED lib_vars
    /\ subm[r] = "pending"
    /\ LET res == EnqueueResult(~alive, Len(queue) < QueueCapacity)
       IN  /\ subm' = [subm EXCEPT ![r] = res]
           /\ IF res = "accepted"
              THEN /\ queue' = Append(queue, r)
                   /\ handles' = handles + 1
                   /\ slot' = slot
                   /\ suspended' = suspended
              ELSE IF res = "pending"
              THEN \* Ok(Async::NotReady): the Send future keeps the message
                   /\ suspended' = suspended \cup {r}
                   /\ UNCHANGED << queue, handles, slot >>
              ELSE \* the handle and the message (with its sender) are lost
                   /\ queue' = queue
                   /\ handles' = handles
                   /\ slot' = [slot EXCEPT ![r] = "dropped"]
                   /\ suspended' = suspended
    /\ UNCHANGED << drv_vars, encoding, ready, peeked, alive, enc_ok, writes,
                    observed, late, stop_requested >>

\* Variant: an error written into the slot is reported as a cancellation.
ResponsePoll_err_is_cancel(content) ==
    IF content = "empty" THEN "NotReady"
    ELSE IF content \in {"dropped", "Mail", "Smtp", "Io"} THEN "CanceledByDriver"
    ELSE content

\* what MailResponseFuture::poll returns for a slot content
ResponsePoll(content) ==
    IF content = "empty" THEN "NotReady"
    ELSE IF content = "dropped" THEN "CanceledByDriver"
    ELSE content

\* MailResponseFuture::poll
MailResponseFuture_poll(r) ==
    /\ UNCHANGED lib_vars
    /\ subm[r] = "accepted"
    /\ observed[r] = "none"
    /\ ResponsePoll(slot[r]) # "NotReady"
    /\ observed' = [observed EXCEPT ![r] = ResponsePoll(slot[r])]
    /\ UNCHANGED << drv_vars, pipe_vars, alive, handles, subm, enc_ok, late,
                    slot, writes, stop_requested, suspended >>

\* the caller drops the MailResponseFuture of request r before an outcome
\* was written
MailResponseFuture_drop(r) ==
    /\ UNCHANGED lib_vars
    /\ subm[r] = "accepted"
    /\ observed[r] = "none"
    /\ slot[r] = "empty"
    /\ observed' = [observed EXCEPT ![r] = "gone"]
    /\ UNCHANGED << drv_vars, pipe_vars, alive, handles, subm, enc_ok, late,
                    slot, writes, stop_requested, suspended >>

\* the offloaded encoding of request r completes
EncodeDone(r) ==
    /\ UNCHANGED lib_vars
    /\ alive
    /\ r \in encoding
    /\ encoding' = encoding \ {r}
    /\ ready' = Append(ready, r)
    /\ UNCHANGED << drv_vars, queue, peeked, alive, handle_vars, slot, writes,
                    stop_requested >>

\* StopServiceHandle::stop called by the holder of MailService::stop_handle()
ExternalStop ==
    /\ UNCHANGED lib_vars
    /\ ~stop_requested
    /\ stop_flag' = TRUE
    /\ stop_requested' = TRUE
    /\ UNCHANGED << connection, tx_of_pending, driver, connects_left, net,
                    pipe_vars, alive, handle_vars, slot, writes >>

\* the resolved driver future is dropped by its executor: every reply slot
\* it still owns is dropped unwritten
DropService ==
    /\ UNCHANGED lib_vars
    /\ alive /\ driver # "running"
    /\ alive' = FALSE
    /\ slot' = [r \in Reqs |->
                  IF r \in ServiceOwned /\ slot[r] = "empty" THEN "dropped"
                  ELSE slot[r]]
    /\ queue' = << >> /\ encoding' = {} /\ ready' = << >> /\ peeked' = None
    /\ tx_of_pending' = None
    /\ UNCHANGED << connection, stop_flag, driver, connects_left, net,
                    handle_vars, writes, stop_requested >>

\* poll_next_request: state is the connection after step 1, tx the pending
\* slot owner, sl/wr/nt the reply slots, write counts and wire log so far.
\* Yields the new values of the fields the driver touches; driver stays
\* "running" unless one of the expect() calls fails ("panic").
poll_next_request(state, tx, sl, wr, nt) ==
    LET nx == rx_poll
        base == [connection |-> state, tx_of_pending |-> tx, slot |-> sl,
                 writes |-> wr, net |-> nt, stop_flag |-> stop_flag,
                 driver |-> "running", queue |-> nx.queue,
                 encoding |-> nx.encoding, ready |-> nx.ready,
                 peeked |-> nx.peeked]
    IN  IF nx.item = None
        THEN base                               \* Ok(Async::NotReady)
        ELSE IF nx.item = EndOfStream
        THEN LET st == start_stopping_now(state)
             IN  IF st.close.result # "Ok"
                 THEN [base EXCEPT !.driver = "panic", !.stop_flag = st.stop_flag]
                 ELSE [base EXCEPT !.connection = st.close.state,
                                   !.stop_flag = st.stop_flag,
                                   !.net = nt \o NetOnClose(state)]
        ELSE LET t == transmit(state, nx.item, enc_ok[nx.item], tx)
                 w == tx_send(sl, nx.item, t.reply)
             IN  IF t.send.result # "Ok"
                 THEN [base EXCEPT !.driver = "panic"]
                 ELSE [base EXCEPT
                         !.connection = t.send.state,
                         !.tx_of_pending = t.tx_of_pending,
                         !.driver = IF t.reply = "none" THEN "running"
                                    ELSE discard_send_result(w.result),
                         !.slot = IF t.reply = "none" THEN sl ELSE w.slot,
                         !.writes = IF t.reply = "none" THEN wr
                                    ELSE CountWrite(wr, nx.item),
                         !.net = IF t.sent
                                 THEN Append(nt, NetEvent("send", nx.item))
                                 ELSE nt]

\* One iteration of the loop of MailService::poll.  p is what the future
\* held by the connection state answers when polled; an iteration that
\* changes nothing and returns NotReady is a stuttering step.
PollEnabled(p) ==
    /\ alive /\ driver = "running"
    /\ p \in FutPoll(connection)

\* try_ready! on Err: the poll returns the error, nothing else is done
PollErr(p) ==
    /\ UNCHANGED lib_vars
    /\ PollEnabled(p)
    /\ LET pr == poll_state_completion(connection, p)
       IN  /\ pr.result \in {"Err_A", "Err_B"}
           /\ connection' = pr.state
           /\ driver' = IF pr.result = "Err_A" THEN "err_io" ELSE "err_connect"
           /\ net' = net \o NetOnPoll(connection, p)
    /\ UNCHANGED << tx_of_pending, stop_flag, connects_left, pipe_vars, alive,
                    handle_vars, slot, writes, stop_requested >>

\* CompletionState::Usable(opt_mail_send_result)
PollUsable(p) ==
    /\ UNCHANGED lib_vars
    /\ PollEnabled(p)
    /\ LET pr == poll_state_completion(connection, p)
           some == pr.result \in {"Usable_Ok", "Usable_Smtp"}
           nt == net \o NetOnPoll(connection, p)
       IN  /\ pr.result \in {"Usable_None", "Usable_Ok", "Usable_Smtp"}
           /\ IF some /\ tx_of_pending = None
              THEN \* expect("[BUG] pending result but no tx")
                   /\ driver' = "panic"
                   /\ connection' = pr.state
                   /\ net' = nt
                   /\ UNCHANGED << tx_of_pending, stop_flag, pipe_vars, slot,
                                   writes >>
              ELSE IF some /\ discard_send_result(
                                  tx_send(slot, tx_of_pending,
                                          MailResult(pr.result)).result) # "running"
              THEN \* the driver does not get past the write
                   /\ driver' = "panic"
                   /\ connection' = pr.state
                   /\ net' = nt
                   /\ tx_of_pending' = None
                   /\ writes' = CountWrite(writes, tx_of_pending)
                   /\ UNCHANGED << stop_flag, pipe_vars, slot >>
              ELSE LET sl == IF some
                             THEN tx_send(slot, tx_of_pending,
                                          MailResult(pr.result)).slot
                             ELSE slot
                       wr == IF some THEN CountWrite(writes, tx_of_pending)
                             ELSE writes
                       tx == IF some THEN None ELSE tx_of_pending
                       n == poll_next_request(pr.state, tx, sl, wr, nt)
                   IN  /\ connection' = n.connection
                       /\ tx_of_pending' = n.tx_of_pending
                       /\ slot' = n.slot
                       /\ writes' = n.writes
                       /\ net' = n.net
                       /\ stop_flag' = n.stop_flag
                       /\ driver' = n.driver
                       /\ queue' = n.queue
                       /\ encoding' = n.encoding
                       /\ ready' = n.ready
                       /\ peeked' = n.peeked
    /\ UNCHANGED << connects_left, alive, handle_vars, stop_requested >>

\* CompletionState::Idle
PollIdle(p) ==
    /\ UNCHANGED lib_vars
    /\ PollEnabled(p)
    /\ LET pr == poll_state_completion(connection, p)
           pk == rx_peek
           nt == net \o NetOnPoll(connection, p)
       IN  /\ pr.result = "Idle"
           /\ queue' = pk.queue
           /\ encoding' = pk.encoding
           /\ ready' = pk.ready
           /\ peeked' = pk.peeked
           /\ IF pk.item = None
              THEN \* try_ready!: NotReady
                   /\ connection' = pr.state
                   /\ net' = nt
                   /\ UNCHANGED << stop_flag, driver, connects_left >>
              ELSE IF pk.item # EndOfStream
              THEN LET c == setup_connect(connects_left)
                   IN  /\ connection' = change_into_connecting(pr.state, c.fut)
                       /\ connects_left' = c.left
                       /\ net' = Append(nt, NetEvent("connect", None))
                       /\ UNCHANGED << stop_flag, driver >>
              ELSE LET st == start_stopping_now(pr.state)
                   IN  /\ stop_flag' = st.stop_flag
                       /\ connection' = st.close.state
                       /\ driver' = IF st.close.result = "Ok" THEN "running"
                                    ELSE "panic"
                       /\ net' = nt \o NetOnClose(pr.state)
                       /\ UNCHANGED connects_left
    /\ UNCHANGED << tx_of_pending, alive, handle_vars, slot, writes,
                    stop_requested >>

\* CompletionState::Terminated
PollTerminated(p) ==
    /\ UNCHANGED lib_vars
    /\ PollEnabled(p)
    /\ LET pr == poll_state_completion(connection, p)
       IN  /\ pr.result = "Terminated"
           /\ connection' = pr.state
           /\ stop_flag' = TRUE
           /\ driver' = "ok"
           /\ net' = net \o NetOnPoll(connection, p)
    /\ UNCHANGED << tx_of_pending, connects_left, pipe_vars, alive,
                    handle_vars, slot, writes, stop_requested >>

Next ==
    \/ HandleClone
    \/ HandleDrop
    \/ \E r \in Reqs, ok \in BOOLEAN : handle_send_mail(r, ok)
    \/ \E r \in Reqs : MailEnqueueFuture_poll(r)
    \/ \E r \in Reqs : MailResponseFuture_poll(r)
    \/ \E r \in Reqs : EncodeDone(r)
    \/ ExternalStop
    \/ DropService
    \/ \E p \in {"Ok", "Smtp", "Err"} : PollErr(p)
    \/ \E p \in {"Ok", "Smtp", "Err"} : PollUsable(p)
    \/ \E p \in {"Ok", "Smtp", "Err"} : PollIdle(p)
    \/ \E p \in {"Ok", "Smtp", "Err"} : PollTerminated(p)

Spec == Init /\ [][Next]_vars

\* The service on an executor that polls the driver whenever it can make
\* progress and lets every offloaded encoding finish; callers stay free.
DriverStep ==
    \E p \in {"Ok", "Smtp", "Err"} :
        PollErr(p) \/ PollUsable(p) \/ PollIdle(p) \/ PollTerminated(p)

SpecFair ==
    /\ Init /\ [][Next]_vars
    /\ WF_vars(DriverStep)
    /\ WF_vars(\E r \in Reqs : EncodeDone(r))

\* The service used through one handle by a caller that may drop the
\* response future of a request instead of polling it; the service is set
\* up with every connection attempt available.
InitCallerDrops ==
    /\ connection = Idle /\ tx_of_pending = None /\ stop_flag = FALSE
    /\ driver = "running" /\ alive = TRUE
    /\ connects_left = MaxConnects
    /\ queue = << >> /\ encoding = {} /\ ready = << >> /\ peeked = None
    /\ handles = 1
    /\ subm = [r \in Reqs |-> "none"] /\ enc_ok = [r \in Reqs |-> TRUE]
    /\ slot = [r \in Reqs |-> "empty"] /\ writes = [r \in Reqs |-> 0]
    /\ observed = [r \in Reqs |-> "none"] /\ late = [r \in Reqs |-> FALSE]
    /\ net = << >> /\ stop_requested = FALSE /\ suspended = {}
    /\ api = None /\ resolve_all = None /\ derive = None /\ batch = None
    /\ auto_close = None

NextCallerDrops ==
    \/ HandleDrop
    \/ \E r \in Reqs, ok \in BOOLEAN : handle_send_mail(r, ok)
    \/ \E r \in Reqs : MailEnqueueFuture_poll(r)
    \/ \E r \in Reqs : MailResponseFuture_poll(r)
    \/ \E r \in Reqs : MailResponseFuture_drop(r)
    \/ \E r \in Reqs : EncodeDone(r)
    \/ \E p \in {"Ok", "Smtp", "Err"} : PollErr(p)
    \/ \E p \in {"Ok", "Smtp", "Err"} : PollUsable(p)
    \/ \E p \in {"Ok", "Smtp", "Err"} : PollIdle(p)
    \/ \E p \in {"Ok", "Smtp", "Err"} : PollTerminated(p)

SpecCallerDrops == InitCallerDrops /\ [][NextCallerDrops]_vars

TypeOK ==
    /\ connection.tag \in {"Idle", "Connecting", "Connected", "ConnectionInUse",
                           "Closing", "Terminated"}
    /\ tx_of_pending \in Reqs \cup {None}
    /\ driver \in {"running", "ok", "err_io", "err_connect"}
    /\ handles \in 0 .. MaxHandles
    /\ Len(queue) <= EnqueuingBuffer + MaxHandles

\* every service variable at its value after construction, no connection
\* attempt available
ServiceAtRest ==
    /\ connection = Idle /\ tx_of_pending = None /\ stop_flag = FALSE
    /\ driver = "running" /\ alive = TRUE /\ connects_left = 0
    /\ queue = << >> /\ encoding = {} /\ ready = << >> /\ peeked = None
    /\ handles = 1
    /\ subm = [r \in Reqs |-> "none"] /\ enc_ok = [r \in Reqs |-> TRUE]
    /\ slot = [r \in Reqs |-> "empty"] /\ writes = [r \in Reqs |-> 0]
    /\ observed = [r \in Reqs |-> "none"] /\ late = [r \in Reqs |-> FALSE]
    /\ net = << >> /\ stop_requested = FALSE /\ suspended = {}

\* ================================= ConnectionState used on its own
\* The operations of ConnectionState called in any order by any caller,
\* starting from ConnectionState::Idle.  api: the operation called last,
\* what it returned ("panic": it aborted), and the number of calls so far;
\* net: what the calls issued towards the server.
svc_but_connection ==
    << tx_of_pending, stop_flag, driver, alive, connects_left, queue, encoding,
       ready, peeked, handles, subm, enc_ok, slot, writes, observed, late,
       stop_requested, suspended >>

ApiCall(op, result) == [op |-> op, result |-> result, calls |-> api.calls + 1]

ConnectionStateInit ==
    /\ ServiceAtRest
    /\ api = [op |-> "new", result |-> "none", calls |-> 0]
    /\ resolve_all = None /\ derive = None /\ batch = None
    /\ auto_close = None

CS_poll_state_completion(p) ==
    /\ api.calls < MaxCalls
    /\ p \in FutPoll(connection)
    /\ LET pr == poll_state_completion(connection, p)
       IN  /\ connection' = pr.state
           /\ api' = ApiCall("poll_state_completion", pr.result)
           /\ net' = net \o NetOnPoll(connection, p)
    /\ UNCHANGED << svc_but_connection, resolve_all, derive, batch, auto_close >>

CS_send_mail(r) ==
    /\ api.calls < MaxCalls
    /\ LET sr == send_mail(connection, r)
       IN  /\ connection' = sr.state
           /\ api' = ApiCall("send_mail", sr.result)
           /\ net' = IF sr.result = "Ok" THEN Append(net, NetEvent("send", r))
                     ELSE net
    /\ UNCHANGED << svc_but_connection, resolve_all, derive, batch, auto_close >>

CS_close_current ==
    /\ api.calls < MaxCalls
    /\ LET cr == close_current(connection)
       IN  /\ connection' = cr.state
           /\ api' = ApiCall("close_current", cr.result)
           /\ net' = net \o NetOnClose(connection)
    /\ UNCHANGED << svc_but_connection, resolve_all, derive, batch, auto_close >>

CS_terminate ==
    /\ api.calls < MaxCalls
    /\ LET cr == terminate(connection)
       IN  /\ connection' = cr.state
           /\ api' = ApiCall("terminate", cr.result)
           /\ net' = net \o NetOnClose(connection)
    /\ UNCHANGED << svc_but_connection, resolve_all, derive, batch, auto_close >>

\* the old state is replaced first, the panic on a poisoned one comes after
CS_change_into_connecting(con_fut) ==
    /\ api.calls < MaxCalls
    /\ connection' = change_into_connecting(connection, con_fut)
    /\ api' = ApiCall("change_into_connecting",
                      IF connection = Poison THEN "panic" ELSE "Ok")
    /\ net' = Append(net, NetEvent("connect", None))
    /\ UNCHANGED << svc_but_connection, resolve_all, derive, batch, auto_close >>

ConnectionStateNext ==
    \/ \E p \in {"NotReady", "Chained", "Ok", "Smtp", "Err"} :
            CS_poll_state_completion(p)
    \/ \E r \in Reqs : CS_send_mail(r)
    \/ CS_close_current
    \/ CS_terminate
    \/ \E con_fut \in {"ok", "err"} : CS_change_into_connecting(con_fut)

SpecConnectionState == ConnectionStateInit /\ [][ConnectionStateNext]_vars

\* ============================================ ResolveAll (resolve_all.rs)
\* What an input future finally answers to poll(): Ok(Async::Ready(val))
\* or Err(err).  Before that it answers Ok(Async::NotReady); a future
\* polled again after it completed answers "Gone" (its contract is broken).
NotReadyPoll == [tag |-> "NotReady", val |-> "none"]
GonePoll == [tag |-> "Gone", val |-> "none"]
InnerOutcomes ==
    {[tag |-> "Ready", val |-> "a"], [tag |-> "Ready", val |-> "b"],
     [tag |-> "Err", val |-> "e"]}

\* Result<F::Item, F::Error>
ResultOk(val) == [ok |-> TRUE, val |-> val]
ResultErr(err) == [ok |-> FALSE, val |-> err]

\* enum AltFuse: Future(F) holds input future number fut
AltFuse_Future(fut) == [tag |-> "Future", fut |-> fut, res |-> None]
AltFuse_Resolved(res) == [tag |-> "Resolved", fut |-> None, res |-> res]

\* Variant: a resolved AltFuse polls its future again.
AltFuse_poll_unfused(f, p) ==
    IF p.tag = "NotReady"
    THEN [fuse |-> f, result |-> "NotReady", polled |-> TRUE]
    ELSE [fuse |-> AltFuse_Resolved(IF p.tag = "Ready" THEN ResultOk(p.val)
                                    ELSE ResultErr(p.val)),
          result |-> "Ready", polled |-> TRUE]

\* AltFuse::poll.  p: what the inner future answers if it is polled;
\* polled: whether the inner future was polled.
AltFuse_poll(f, p) ==
    IF f.tag = "Resolved"
    THEN [fuse |-> f, result |-> "Ready", polled |-> FALSE]
    ELSE IF p.tag = "NotReady"
    THEN [fuse |-> f, result |-> "NotReady", polled |-> TRUE]
    ELSE [fuse |-> AltFuse_Resolved(IF p.tag = "Ready" THEN ResultOk(p.val)
                                    ELSE ResultErr(p.val)),
          result |-> "Ready", polled |-> TRUE]

\* ResolveAll::from_iter over n futures
ResolveAll_from_iter(n) == [i \in 1 .. n |-> AltFuse_Future(i)]

\* Variant: only the successful results are collected.
ResolveAll_poll_ok_only(all, ans) ==
    LET polls == [i \in 1 .. Len(all) |-> AltFuse_poll(all[i], ans[i])]
        fused == [i \in 1 .. Len(all) |-> polls[i].fuse]
        IsOk(f) == f.res.ok
    IN  IF \E i \in 1 .. Len(all) : polls[i].result = "NotReady"
        THEN [all |-> fused, result |-> [tag |-> "NotReady", results |-> << >>],
              polled |-> {i \in 1 .. Len(all) : polls[i].polled}]
        ELSE [all |-> << >>,
              result |-> [tag |-> "Ready",
                          results |-> [i \in 1 .. Len(SelectSeq(fused, IsOk)) |->
                                          SelectSeq(fused, IsOk)[i].res]],
              polled |-> {i \in 1 .. Len(all) : polls[i].polled}]

\* ResolveAll::poll.  ans[i]: what input future i answers if it is polled.
ResolveAll_poll(all, ans) ==
    LET polls == [i \in 1 .. Len(all) |-> AltFuse_poll(all[i], ans[i])]
        fused == [i \in 1 .. Len(all) |-> polls[i].fuse]
    IN  IF \E i \in 1 .. Len(all) : polls[i].result = "NotReady"
        THEN [all |-> fused, result |-> [tag |-> "NotReady", results |-> << >>],
              polled |-> {i \in 1 .. Len(all) : polls[i].polled}]
        ELSE [all |-> << >>,
              result |-> [tag |-> "Ready",
                          results |-> [i \in 1 .. Len(all) |-> fused[i].res]],
              polled |-> {i \in 1 .. Len(all) : polls[i].polled}]

\* inputs: what each input future resolves to; done: the input futures that
\* have completed; completed: the same in order of completion; result: what
\* the last ResolveAll::poll returned; repolled: input futures polled after
\* their completion
ResolveAllInit ==
    /\ ServiceAtRest
    /\ api = None /\ derive = None /\ batch = None
    /\ auto_close = None
    /\ \E n \in 0 .. MaxOps :
         \E inputs \in [1 .. n -> InnerOutcomes] :
            resolve_all = [all |-> ResolveAll_from_iter(n), inputs |-> inputs,
                           done |-> {}, completed |-> << >>,
                           result |-> [tag |-> "none", results |-> << >>],
                           repolled |-> {}]

RECURSIVE SetToSeq(_)
SetToSeq(S) ==
    IF S = {} THEN << >>
    ELSE LET m == CHOOSE x \in S : \A y \in S : x <= y
         IN  << m >> \o SetToSeq(S \ {m})

\* one poll of the ResolveAll future by its executor; rdy: the input
\* futures that have become ready since the last poll
ResolveAll_Poll(rdy) ==
    /\ resolve_all.result.tag # "Ready"
    /\ rdy \subseteq (1 .. Len(resolve_all.inputs)) \ resolve_all.done
    /\ LET ra == resolve_all
           ans == [i \in 1 .. Len(ra.inputs) |->
                     IF i \in ra.done THEN GonePoll
                     ELSE IF i \in rdy THEN ra.inputs[i]
                     ELSE NotReadyPoll]
           pr == ResolveAll_poll(ra.all, ans)
           now == {i \in pr.polled : ans[i].tag \in {"Ready", "Err"}}
       IN  resolve_all' = [ra EXCEPT
                              !.all = pr.all,
                              !.result = pr.result,
                              !.done = ra.done \cup now,
                              !.completed = ra.completed \o SetToSeq(now),
                              !.repolled = ra.repolled \cup (pr.polled \cap ra.done)]
    /\ UNCHANGED << svc_vars, api, derive, batch, auto_close >>

ResolveAllNext ==
    \E rdy \in SUBSET (1 .. MaxOps) : ResolveAll_Poll(rdy)

SpecResolveAll == ResolveAllInit /\ [][ResolveAllNext]_vars

\* ======================== envelop data from headers (smtp/src/request.rs)
\* Option<T>
Some(x) == [some |-> TRUE, val |-> << x >>]
Absent == [some |-> FALSE, val |-> << >>]
Unwrap(o) == o.val[1]

\* the e-mail addresses used in headers: plain, with a non-ascii local
\* part, with a non-ascii domain ("tuest" stands for the non-ascii label)
Emails ==
    {[local |-> "ape", domain |-> "caffe.test"],
     [local |-> "tuest", domain |-> "tost.test"],
     [local |-> "tast", domain |-> "tuest.test"]}
Mailboxes == {[email |-> e] : e \in Emails}

\* Email::check_if_internationalized: the local part is not ascii
check_if_internationalized(email) == email.local = "tuest"

\* encoding of a domain with MailType::Ascii
PunyDomain(domain) ==
    IF domain = "tuest.test" THEN "xn--tst-hoa.test" ELSE domain

\* mailaddress_from_mailbox: MailAddress::new_unchecked(address, needs_smtputf8)
mailaddress_from_mailbox(mailbox) ==
    LET needs_smtputf8 == check_if_internationalized(mailbox.email)
    IN  [local |-> mailbox.email.local,
         domain |-> IF needs_smtputf8 THEN mailbox.email.domain
                    ELSE PunyDomain(mailbox.email.domain),
         needs_smtputf8 |-> needs_smtputf8]

DeriveOk(envelop) == [tag |-> "Ok", val |-> envelop]
DeriveErr(err) == [tag |-> "Err", val |-> err]

\* Variant: the first From mailbox is the smtp sender whenever From exists.
derive_envelop_data_from_mail_prefers_from(headers) ==
    IF ~headers.from.some /\ ~headers.sender.some THEN DeriveErr("NoFrom")
    ELSE IF ~headers.to.some THEN DeriveErr("NoTo")
    ELSE DeriveOk([from |-> mailaddress_from_mailbox(
                               IF headers.from.some THEN Unwrap(headers.from)[1]
                               ELSE Unwrap(headers.sender)),
                   to |-> [i \in 1 .. Len(Unwrap(headers.to)) |->
                             mailaddress_from_mailbox(Unwrap(headers.to)[i])]])

\* derive_envelop_data_from_mail.  headers: sender is an optional mailbox,
\* from and to are optional non-empty mailbox lists.
derive_envelop_data_from_mail(headers) ==
    LET smtp_from ==
            IF headers.sender.some
            THEN DeriveOk(mailaddress_from_mailbox(Unwrap(headers.sender)))
            ELSE IF ~headers.from.some THEN DeriveErr("NoFrom")
            ELSE IF Len(Unwrap(headers.from)) > 1
            THEN DeriveErr("MultiMailboxFromWithoutSender")
            ELSE DeriveOk(mailaddress_from_mailbox(Unwrap(headers.from)[1]))
    IN  IF smtp_from.tag = "Err" THEN smtp_from
        ELSE IF ~headers.to.some THEN DeriveErr("NoTo")
        ELSE DeriveOk([from |-> smtp_from.val,
                       to |-> [i \in 1 .. Len(Unwrap(headers.to)) |->
                                 mailaddress_from_mailbox(Unwrap(headers.to)[i])]])

\* the non-empty mailbox lists of at most MaxMailboxes entries
MailboxLists ==
    UNION {[1 .. n -> Mailboxes] : n \in 1 .. MaxMailboxes}

DeriveInit ==
    /\ ServiceAtRest
    /\ api = None /\ resolve_all = None /\ batch = None
    /\ auto_close = None
    /\ \E sender \in {Absent} \cup {Some(m) : m \in Mailboxes},
          from \in {Absent} \cup {Some(l) : l \in MailboxLists},
          to \in {Absent} \cup {Some(l) : l \in MailboxLists} :
            derive = [headers |-> [sender |-> sender, from |-> from, to |-> to],
                      result |-> [tag |-> "none", val |-> << >>]]

\* a call of derive_envelop_data_from_mail on the mail
Derive ==
    /\ derive.result.tag = "none"
    /\ derive' = [derive EXCEPT
                    !.result = derive_envelop_data_from_mail(derive.headers)]
    /\ UNCHANGED << svc_vars, api, resolve_all, batch, auto_close >>

DeriveNext == Derive

SpecDerive == DeriveInit /\ [][DeriveNext]_vars

\* ================================= send_encoded_mails (send_mail.rs)
\* EncodeMailResult number i of the input: Ok(envelop i) or Err(error i)
EncodeMailResult(ok, i) == [ok |-> ok, id |-> i]

\* SendMailResult
SendOk == [ok |-> TRUE, err |-> << >>]
SendErr(kind, i) == [ok |-> FALSE, err |-> << kind, i >>]

\* Variant: an input that is an encoding error is skipped.
send_encoded_mails_next_skips_errors(b) ==
    IF b.iter > Len(b.mails)
    THEN [b EXCEPT !.state = "ok", !.con = "returned"]
    ELSE LET item == b.mails[b.iter]
         IN  IF ~item.ok
             THEN [b EXCEPT !.iter = @ + 1]
             ELSE [b EXCEPT !.iter = @ + 1,
                            !.state = "sending",
                            !.con = "in_use",
                            !.wire = Append(@, [id |-> item.id, answer |-> "none"])]

\* one turn of the loop_fn closure: match iter.next()
send_encoded_mails_next(b) ==
    IF b.iter > Len(b.mails)
    THEN \* None => Loop::Break((con, results))
         [b EXCEPT !.state = "ok", !.con = "returned"]
    ELSE LET item == b.mails[b.iter]
         IN  IF ~item.ok
             THEN \* Some(Err(err)) => results.push(Err(MailSendError::from(err)))
                  [b EXCEPT !.iter = @ + 1,
                            !.results = Append(@, SendErr("Mail", item.id))]
             ELSE \* Some(Ok(envelop)) => con.send_mail(envelop)
                  [b EXCEPT !.iter = @ + 1,
                            !.state = "sending",
                            !.con = "in_use",
                            !.wire = Append(@, [id |-> item.id, answer |-> "none"])]

\* Variant: the mail that hit the transport error is reported among the
\* results.
send_encoded_mails_then_reports_failed(b, res) ==
    LET sent == b.wire[Len(b.wire)].id
        wire == [b.wire EXCEPT ![Len(b.wire)].answer = res]
    IN  IF res = "Io"
        THEN [b EXCEPT !.state = "err", !.con = "lost", !.wire = wire,
                       !.results = Append(@, SendErr("Io", sent))]
        ELSE [b EXCEPT !.state = "running", !.con = "held", !.wire = wire,
                       !.results = Append(@, IF res = "Ok" THEN SendOk
                                             ELSE SendErr("Smtp", sent))]

\* the .then closure: res is what con.send_mail(envelop) resolved to, "Ok"
\* or "Smtp" (Ok((con, logic_result))) or "Io" (Err(err))
send_encoded_mails_then(b, res) ==
    LET sent == b.wire[Len(b.wire)].id
        wire == [b.wire EXCEPT ![Len(b.wire)].answer = res]
    IN  IF res = "Io"
        THEN \* Err((TransportError::Io(err), results, iter))
             [b EXCEPT !.state = "err", !.con = "lost", !.wire = wire]
        ELSE [b EXCEPT !.state = "running", !.con = "held", !.wire = wire,
                       !.results = Append(@, IF res = "Ok" THEN SendOk
                                             ELSE SendErr("Smtp", sent))]

BatchInit ==
    /\ ServiceAtRest
    /\ api = None /\ resolve_all = None /\ derive = None
    /\ auto_close = None
    /\ \E n \in 0 .. MaxMails :
         \E oks \in [1 .. n -> BOOLEAN] :
            batch = [mails |-> [i \in 1 .. n |-> EncodeMailResult(oks[i], i)],
                     iter |-> 1, results |-> << >>, con |-> "held",
                     wire |-> << >>, state |-> "running"]

\* the loop takes the next input
Batch_Next ==
    /\ batch.state = "running"
    /\ batch' = send_encoded_mails_next(batch)
    /\ UNCHANGED << svc_vars, api, resolve_all, derive, auto_close >>

\* the send of the current mail resolves
Batch_SendDone(res) ==
    /\ batch.state = "sending"
    /\ batch' = send_encoded_mails_then(batch, res)
    /\ UNCHANGED << svc_vars, api, resolve_all, derive, auto_close >>

BatchNext ==
    \/ Batch_Next
    \/ \E res \in {"Ok", "Smtp", "Io"} : Batch_SendDone(res)

SpecBatch == BatchInit /\ [][BatchNext]_vars

\* ------------------------------------------------------ send_mails
\* send_mails(config, requests, ctx) once encode_mails has resolved to the
\* vector mails.  The batch record has one more field, ops: the connection
\* level operations issued ("connect", "quit"); state "encoded": the
\* and_then closure has not run yet, "connecting": connect is pending,
\* "err_connect": resolved with TransportError::Connecting, "done":
\* resolved with the results.
AllFailed(mails) == \A i \in 1 .. Len(mails) : ~mails[i].ok

\* Variant: the connection is opened whatever the encoding gave.
send_mails_encoded_always_connects(b) ==
    [b EXCEPT !.state = "connecting", !.ops = Append(@, "connect")]

\* the and_then closure on the encoded mails
send_mails_encoded(b) ==
    IF AllFailed(b.mails)
    THEN \* Either::A(future::ok(send_skipped))
         [b EXCEPT !.state = "done",
                   !.results = [i \in 1 .. Len(b.mails) |->
                                   SendErr("Mail", b.mails[i].id)]]
    ELSE \* Connection::connect(config)
         [b EXCEPT !.state = "connecting", !.ops = Append(@, "connect")]

\* the .then closure on the result of connect
send_mails_connected(b, ok) ==
    IF ok
    THEN \* Ok(con) => send_encoded_mails(con, mails)
         [b EXCEPT !.state = "running", !.con = "held"]
    ELSE \* Err(err) => (TransportError::Connecting(err), Vec::new(), mails.into_iter())
         [b EXCEPT !.state = "err_connect", !.results = << >>, !.iter = 1]

\* .and_then(|(con, results)| con.quit().then(|_| Ok(results)))
send_mails_quit(b) ==
    [b EXCEPT !.state = "done", !.con = "closed", !.ops = Append(@, "quit")]

SendMailsInit ==
    /\ ServiceAtRest
    /\ api = None /\ resolve_all = None /\ derive = None
    /\ auto_close = None
    /\ \E n \in 0 .. MaxMails :
         \E oks \in [1 .. n -> BOOLEAN] :
            batch = [mails |-> [i \in 1 .. n |-> EncodeMailResult(oks[i], i)],
                     iter |-> 1, results |-> << >>, con |-> "none",
                     wire |-> << >>, ops |-> << >>, state |-> "encoded"]

SM_Encoded ==
    /\ batch.state = "encoded"
    /\ batch' = send_mails_encoded(batch)
    /\ UNCHANGED << svc_vars, api, resolve_all, derive, auto_close >>

SM_Connected(ok) ==
    /\ batch.state = "connecting"
    /\ batch' = send_mails_connected(batch, ok)
    /\ UNCHANGED << svc_vars, api, resolve_all, derive, auto_close >>

\* send_encoded_mails resolved with (con, results)
SM_Quit ==
    /\ batch.state = "ok"
    /\ batch' = send_mails_quit(batch)
    /\ UNCHANGED << svc_vars, api, resolve_all, derive, auto_close >>

SendMailsNext ==
    \/ SM_Encoded
    \/ \E ok \in BOOLEAN : SM_Connected(ok)
    \/ Batch_Next
    \/ \E res \in {"Ok", "Smtp", "Io"} : Batch_SendDone(res)
    \/ SM_Quit

SpecSendMails == SendMailsInit /\ [][SendMailsNext]_vars

\* ============================================ AutoClose (mpsc_ext.rs)
\* An AutoClose over an mpsc receiver, used on its own.  A receiver is its
\* queue, whether it was closed, and whether a sender is left.
Receiver(queue_, closed, senders) ==
    [queue |-> queue_, closed |-> closed, senders |-> senders]

\* AutoClose { inner, stop_handle }: stop_handle is the value of the flag
AutoClose_new(inner, stop_handle) == [inner |-> inner, stop_handle |-> stop_handle]

\* self.inner.close(): later sends fail, queued messages stay
Receiver_close(rx) == [rx EXCEPT !.closed = TRUE]

\* self.inner.poll(): the head of the queue; Ready(None) when the queue is
\* empty and the receiver is closed or without senders; else NotReady
Receiver_poll(rx) ==
    IF rx.queue # << >>
    THEN [inner |-> [rx EXCEPT !.queue = Tail(rx.queue)], item |-> Head(rx.queue)]
    ELSE IF rx.closed \/ ~rx.senders
    THEN [inner |-> rx, item |-> EndOfStream]
    ELSE [inner |-> rx, item |-> None]

\* Sender::send on the receiver's channel: refused once closed
Receiver_send(rx, m) ==
    IF rx.closed THEN [inner |-> rx, result |-> "Err"]
    ELSE [inner |-> [rx EXCEPT !.queue = Append(rx.queue, m)], result |-> "Ok"]

\* Variant: a set flag ends the stream at once, queued messages are lost.
AutoClose_poll_ends_at_once(ac) ==
    IF ac.stop_handle
    THEN [inner |-> Receiver_close(ac.inner), item |-> EndOfStream]
    ELSE Receiver_poll(ac.inner)

\* AutoClose::poll
AutoClose_poll(ac) ==
    IF ac.stop_handle
    THEN Receiver_poll(Receiver_close(ac.inner))
    ELSE Receiver_poll(ac.inner)

\* auto_close: ac the stream; sent the number of messages sent so far;
\* accepted / refused the messages the channel took / refused, in order;
\* yielded what the stream gave, in order; last the answer of the last poll
AutoCloseInit ==
    /\ ServiceAtRest
    /\ api = None /\ resolve_all = None /\ derive = None /\ batch = None
    /\ auto_close = [ac |-> AutoClose_new(Receiver(<< >>, FALSE, TRUE), FALSE),
                     sent |-> 0, accepted |-> << >>, refused |-> {},
                     yielded |-> << >>, last |-> "none"]

\* a sender submits the next message
AC_Send ==
    /\ auto_close.sent < MaxMsgs /\ auto_close.ac.inner.senders
    /\ LET m == auto_close.sent + 1
           sr == Receiver_send(auto_close.ac.inner, m)
       IN  auto_close' =
             [auto_close EXCEPT
                !.ac.inner = sr.inner, !.sent = m,
                !.accepted = IF sr.result = "Ok" THEN Append(@, m) ELSE @,
                !.refused = IF sr.result = "Ok" THEN @ ELSE @ \cup {m}]
    /\ UNCHANGED << svc_vars, api, resolve_all, derive, batch >>

\* the last sender is dropped
AC_DropSenders ==
    /\ auto_close.ac.inner.senders
    /\ auto_close' = [auto_close EXCEPT !.ac.inner.senders = FALSE]
    /\ UNCHANGED << svc_vars, api, resolve_all, derive, batch >>

\* StopServiceHandle::stop on a clone of the handle the stream holds
AC_Stop ==
    /\ ~auto_close.ac.stop_handle
    /\ auto_close' = [auto_close EXCEPT !.ac.stop_handle = TRUE]
    /\ UNCHANGED << svc_vars, api, resolve_all, derive, batch >>

\* the consumer polls the stream (not after it ended)
AC_Poll ==
    /\ auto_close.last # "End"
    /\ LET pr == AutoClose_poll(auto_close.ac)
       IN  auto_close' =
             [auto_close EXCEPT
                !.ac.inner = pr.inner,
                !.yielded = IF pr.item \in 1 .. MaxMsgs THEN Append(@, pr.item)
                            ELSE @,
                !.last = IF pr.item = EndOfStream THEN "End"
                         ELSE IF pr.item = None THEN "NotReady"
                         ELSE "Item"]
    /\ UNCHANGED << svc_vars, api, resolve_all, derive, batch >>

AutoCloseNext == AC_Send \/ AC_DropSenders \/ AC_Stop \/ AC_Poll

SpecAutoClose == AutoCloseInit /\ [][AutoCloseNext]_vars

\* =============================================================== claims
Written == {"Ack", "Smtp", "Mail", "Io"}
Accepted == {r \in Reqs : subm[r] = "accepted"}
\* a step that issues nothing towards the server
NetFrozen == net' = net
\* a step that puts no value into any reply slot (slots may be dropped)
OnlyDrops == \A r \in Reqs : slot'[r] # slot[r] => slot'[r] = "dropped"

\* C1: over every interleaving, the reply slot of a request is written at
\* most once: never both a send outcome and an encoding error, never twice;
\* a slot that holds a value was written exactly once.
C1_SlotWrittenAtMostOnce ==
    \A r \in Reqs :
        /\ writes[r] <= 1
        /\ slot[r] \in Written <=> writes[r] = 1

C1_Witness ==
    \E a, b \in Reqs :
        /\ slot[a] = "Mail" /\ writes[a] = 1
        /\ slot[b] \in {"Ack", "Smtp"} /\ writes[b] = 1

\* C2: once the driver has resolved and been dropped, every request whose
\* submission was accepted has exactly one outcome: its response future
\* resolves (never stays pending) with one of the listed outcomes, and what
\* the caller observed is that outcome.
C2_OneOutcome ==
    \A r \in Accepted :
        /\ ~alive => ResponsePoll(slot[r]) \in Written \cup {"CanceledByDriver"}
        /\ observed[r] # "none" => observed[r] = ResponsePoll(slot[r])

C2_Witness ==
    /\ ~alive
    /\ \E a, c \in Accepted :
        /\ observed[a] = "CanceledByDriver" /\ a \in IoFailedReqs
        /\ observed[c] = "CanceledByDriver" /\ c \notin SentReqs

\* C3: a request that fails envelope derivation, composition or encoding is
\* never sent on the connection and gets exactly that error, and when the
\* driver has finished without a transport failure every other accepted
\* request was sent and got the server's answer (Ack unless rejected).
C3_Isolation ==
    /\ \A r \in Reqs : ~enc_ok[r] =>
            r \notin SentReqs /\ slot[r] \in {"empty", "Mail", "dropped"}
    /\ driver = "ok" =>
          \A r \in Accepted :
              IF enc_ok[r]
              THEN /\ r \in SentReqs
                   /\ slot[r] = IF r \in RejectedReqs THEN "Smtp" ELSE "Ack"
              ELSE slot[r] = "Mail"

C3_Witness ==
    /\ driver = "ok"
    /\ Accepted = Reqs
    /\ \E a \in Reqs :
        /\ ~enc_ok[a] /\ slot[a] = "Mail" /\ a \notin SentReqs
        /\ \A b \in Reqs \ {a} : slot[b] = "Ack" /\ b \in SentReqs

\* C4 (as claimed): a request whose in-flight send failed with an I/O error
\* observes MailSendError::Io, not CanceledByDriver and not an Ack.
C4_IoErrorObserved ==
    \A r \in IoFailedReqs : observed[r] # "none" => observed[r] = "Io"

C6_ReconnectAfterIoError ==
    \A r \in Reqs :
        (late[r] /\ Count("io_error") = 1 /\ connects_left >= 1
            /\ ~Seen("connect_failed"))
        => subm[r] # "DriverDropped" /\ observed[r] # "CanceledByDriver"

\* C7 (as claimed): when a send failed with an I/O error and the setup has no
\* connection left, the failed request observes MailSendError::Io and the
\* driver resolves with an error.
C7_IoErrorThenDriverError ==
    \A r \in IoFailedReqs :
        connects_left = 0 =>
            /\ driver \in {"err_io", "err_connect"}
            /\ observed[r] # "none" => observed[r] = "Io"

\* C8: a failed connect is fatal: the state is Terminated, the driver has
\* resolved with the connect error, connect is not called again and nothing
\* else is issued, and no request ever gets a value: each observes
\* CanceledByDriver or is refused with DriverDropped.
C8_ConnectFailureFatal ==
    /\ [](Seen("connect_failed") =>
            /\ connection = Terminated /\ driver = "err_connect"
            /\ Count("connect") = 1
            /\ \A r \in Reqs :
                /\ slot[r] \in {"empty", "dropped"}
                /\ observed[r] \in {"none", "CanceledByDriver"})
    /\ [][Seen("connect_failed") => NetFrozen /\ connection' = connection]_vars

C8_Witness ==
    /\ Seen("connect_failed") /\ ~alive
    /\ \E a, b \in Reqs :
        /\ observed[a] = "CanceledByDriver"
        /\ subm[b] = "DriverDropped"

\* C9 (as claimed): the close of a drained service is non-terminating unless
\* a stop was explicitly requested.
C9_NonTerminatingWithoutStop ==
    (connection.tag = "Closing" /\ ~stop_requested) => ~connection.is_termination

\* C9 (amended): when all handles are dropped and the pipeline is drained
\* the driver always begins a terminating close, requested stop or not: the
\* state is Closing only with is_termination set, the stop flag set, no
\* send in flight and nothing left to process; the driver resolves Ok only
\* in Terminated, resolves once, and no connect, send or quit is issued
\* after the close has begun.
C9_TerminatingDrain ==
    /\ [](connection.tag = "Closing" =>
            /\ connection.is_termination /\ stop_flag
            /\ tx_of_pending = None
            /\ IngressClosed /\ ServiceOwned = {})
    /\ [](driver = "ok" => connection = Terminated /\ stop_flag)
    /\ [][driver # "running" => driver' = driver]_vars
    /\ [][connection.tag \in {"Closing", "Terminated"} => NetFrozen]_vars

C9_Witness ==
    /\ driver = "ok" /\ ~stop_requested
    /\ Len(net) >= 3 /\ net[Len(net)] = NetEvent("quit", None)
    /\ \E r \in Reqs : slot[r] = "Ack"

\* C10: a submission fails with DriverDropped exactly when the service is
\* gone: while the service is alive a pending submission is only ever
\* accepted, once it is gone a pending submission only ever fails.
C10_DriverDroppedIffGone ==
    /\ [](\A r \in Reqs : subm[r] = "DriverDropped" => ~alive)
    /\ [][\A r \in Reqs :
            (subm[r] = "pending" /\ subm'[r] # "pending") =>
                (subm'[r] = "DriverDropped" <=> ~alive)]_vars

C10_Witness ==
    \E a, b \in Reqs :
        /\ subm[a] = "accepted"
        /\ subm[b] = "DriverDropped"

C12_CanceledIffDroppedUnwritten ==
    /\ [](\A r \in Reqs :
            observed[r] # "none" =>
                /\ observed[r] = "CanceledByDriver"
                      <=> (slot[r] = "dropped" /\ writes[r] = 0)
                /\ writes[r] > 0 => (observed[r] = slot[r] /\ slot[r] \in Written))
    /\ [][\A r \in Accepted :
            (slot[r] # "dropped" /\ slot'[r] = "dropped") =>
                /\ alive /\ ~alive'
                /\ slot[r] = "empty" /\ r \in ServiceOwned]_vars

C12_Witness ==
    /\ ~alive
    /\ \E a, b \in Reqs :
        /\ observed[a] = "Ack" /\ writes[a] = 1
        /\ observed[b] = "CanceledByDriver" /\ b \in SentReqs /\ writes[b] = 0

\* C13: when ResolveAll over N futures resolves, it yields exactly N
\* results and the result at position i is the outcome of input future i:
\* Ok with the same value if the future succeeded, Err with the same error
\* if it failed, whichever futures failed and in whatever order they
\* completed.
C13_ResultsInInputOrder ==
    resolve_all.result.tag = "Ready" =>
        /\ Len(resolve_all.result.results) = Len(resolve_all.inputs)
        /\ \A i \in 1 .. Len(resolve_all.inputs) :
              /\ resolve_all.result.results[i].ok
                    = (resolve_all.inputs[i].tag = "Ready")
              /\ resolve_all.result.results[i].val = resolve_all.inputs[i].val

C13_Witness ==
    /\ resolve_all.result.tag = "Ready"
    /\ Len(resolve_all.inputs) >= 2
    /\ resolve_all.completed[1] # 1
    /\ \E i, j \in 1 .. Len(resolve_all.inputs) :
          /\ resolve_all.result.results[i].ok
          /\ ~resolve_all.result.results[j].ok

\* C14: ResolveAll never fails and never short-circuits: a poll returns
\* NotReady or Ready, it returns Ready exactly when every input future has
\* completed (so NotReady while one is outstanding, even if others have
\* failed, and Ready at the first poll that finds all completed), and no
\* input future is polled again after its own completion.
C14_NoShortCircuit ==
    /\ resolve_all.result.tag \in {"none", "NotReady", "Ready"}
    /\ resolve_all.result.tag # "none" =>
          (resolve_all.result.tag = "Ready"
              <=> resolve_all.done = 1 .. Len(resolve_all.inputs))
    /\ resolve_all.repolled = {}
    /\ \A i \in 1 .. Len(resolve_all.all) :
          resolve_all.all[i].tag = "Resolved" <=> i \in resolve_all.done

C14_Witness ==
    /\ resolve_all.result.tag = "NotReady"
    /\ \E i, j \in 1 .. Len(resolve_all.inputs) :
          /\ i \in resolve_all.done /\ resolve_all.inputs[i].tag = "Err"
          /\ j \notin resolve_all.done

\* C15: at most one send is in flight: at most one request that was sent
\* has no reported outcome, while the state is ConnectionInUse that request
\* is the one whose slot is pending, no request is sent twice, and a send
\* is started only when every earlier send has had its outcome written.
C15_OneSendInFlight ==
    /\ [](Cardinality({r \in SentReqs : slot[r] \notin Written}) <= 1)
    /\ [](connection.tag = "ConnectionInUse" =>
            /\ tx_of_pending = connection.req
            /\ connection.req \in SentReqs
            /\ slot[connection.req] = "empty")
    /\ [](\A i, j \in 1 .. Len(net) :
            (net[i].op = "send" /\ net[j].op = "send" /\ net[i].req = net[j].req)
                => i = j)
    /\ [][\A r \in Reqs :
            (r \notin SentReqs /\ r \in SentReqs') =>
                \A q \in SentReqs : slot'[q] \in Written]_vars

C15_Witness ==
    /\ connection.tag = "ConnectionInUse"
    /\ \E q \in SentReqs : q # connection.req /\ slot[q] \in {"Ack", "Smtp"}

\* C16 (as claimed): from Terminated no ConnectionState operation, not even
\* change_into_connecting, leads to Connecting, Connected or
\* ConnectionInUse.
C16_AbsorbingForAllOperations ==
    connection = Terminated =>
        \A con_fut \in {"ok", "err"} :
            change_into_connecting(connection, con_fut).tag
                \notin {"Connecting", "Connected", "ConnectionInUse"}

\* C16 (amended): once the state is Terminated every driver step leaves it
\* Terminated, and so does each of poll_state_completion, send_mail,
\* close_current and terminate applied to it; the driver enters Connecting
\* (change_into_connecting) only from Idle, never from Terminated.
C16_TerminatedAbsorbing ==
    /\ [][connection = Terminated => connection' = Terminated]_vars
    /\ [][(connection'.tag = "Connecting" /\ connection.tag # "Connecting")
            => connection.tag = "Idle"]_vars
    /\ [](connection = Terminated =>
            /\ \A p \in FutPoll(connection) :
                  poll_state_completion(connection, p).state = Terminated
            /\ \A r \in Reqs : send_mail(connection, r).state = Terminated
            /\ close_current(connection).state = Terminated
            /\ terminate(connection).state = Terminated)

C16_Witness ==
    /\ connection = Terminated /\ driver = "err_io" /\ ~alive
    /\ \E r \in Reqs : late[r] /\ subm[r] = "DriverDropped"

\* C17: no ConnectionState operation leaves the Poison marker behind:
\* after any sequence of poll_state_completion, send_mail, close_current,
\* terminate and change_into_connecting calls, on every path through them,
\* the state is not Poison, and therefore no call aborts on a poisoned
\* state.
C17_NeverPoison ==
    /\ connection.tag \in {"Idle", "Connecting", "Connected", "ConnectionInUse",
                           "Closing", "Terminated"}
    /\ api.result # "panic"

C17_Witness ==
    /\ api.op = "poll_state_completion" /\ api.result = "Err_A"
    /\ connection = Terminated /\ api.calls >= 4

\* C18 (as claimed): for each request whose send was acknowledged the
\* server has received MAIL with the envelope sender, one RCPT per
\* recipient in envelope order and then DATA with the encoded mail bytes;
\* QUIT is issued only when all handles are dropped and no send is pending.
C18_WireOrder ==
    /\ \A r \in Reqs :
          slot[r] = "Ack" =>
              CommandsOf(r) =
                  << [cmd |-> "MAIL", arg |-> EnvelopOf(r).from] >>
                  \o [i \in 1 .. Len(EnvelopOf(r).to) |->
                        [cmd |-> "RCPT", arg |-> EnvelopOf(r).to[i]]]
                  \o << [cmd |-> "DATA", arg |-> BodyOf(r)] >>
    /\ Seen("quit") => (IngressClosed /\ tx_of_pending = None)

\* the smtp address addr is the address of the header mailbox: same local
\* part, same domain (as written or in its ascii encoding)
C19_SameAddress(addr, mailbox) ==
    /\ addr.local = mailbox.email.local
    /\ addr.domain \in {mailbox.email.domain, PunyDomain(mailbox.email.domain)}

C20_OneResultPerInput ==
    /\ \A k, l \in 1 .. Len(batch.wire) :
          k < l => batch.wire[k].id < batch.wire[l].id
    /\ \A k \in 1 .. Len(batch.wire) :
          /\ batch.mails[batch.wire[k].id].ok
          /\ batch.wire[k].answer = "none"
                => (k = Len(batch.wire) /\ batch.state = "sending")
    /\ batch.state = "ok" =>
          /\ batch.con = "returned"
          /\ Len(batch.results) = Len(batch.mails)
          /\ \A i \in 1 .. Len(batch.mails) :
                IF ~batch.mails[i].ok
                THEN /\ batch.results[i] = SendErr("Mail", i)
                     /\ \A k \in 1 .. Len(batch.wire) : batch.wire[k].id # i
                ELSE \E k \in 1 .. Len(batch.wire) :
                        /\ batch.wire[k].id = i
                        /\ batch.results[i] =
                              IF batch.wire[k].answer = "Ok" THEN SendOk
                              ELSE SendErr("Smtp", i)

C20_Witness ==
    /\ batch.state = "ok" /\ Len(batch.mails) = 3
    /\ batch.results[1] = SendErr("Smtp", 1)
    /\ batch.results[2] = SendErr("Mail", 2)
    /\ batch.results[3] = SendOk

C22_RejectionKeepsConnection ==
    /\ [](connection.tag = "ConnectionInUse" =>
            /\ poll_state_completion(connection, "Smtp").state = Connected
            /\ poll_state_completion(connection, "Ok").state = Connected)
    /\ [](\A r \in Reqs : slot[r] = "Smtp" <=> r \in RejectedReqs)
    /\ [][\A r \in Reqs :
            (r \notin RejectedReqs /\ r \in RejectedReqs') =>
                /\ connection = ConnectionInUse(r)
                /\ slot'[r] = "Smtp"
                /\ \A q \in Reqs \ {r} : slot'[q] = "Smtp" => slot[q] = "Smtp"
                /\ connection'.tag \in {"Connected", "ConnectionInUse", "Closing"}
                /\ connection'.tag = "ConnectionInUse" =>
                      /\ connection'.req # r
                      /\ net' = net \o << NetEvent("reject", r),
                                          NetEvent("send", connection'.req) >>
                /\ Count("connect")' = Count("connect")]_vars
    /\ [](\A i, j \in 1 .. Len(net) :
            (i < j /\ net[i].op = "reject") => net[j].op # "connect")

C22_Witness ==
    /\ Count("connect") = 1
    /\ \E i, j \in 1 .. Len(net) :
          /\ i < j /\ net[i].op = "reject" /\ net[j].op = "send"
          /\ slot[net[i].req] = "Smtp" /\ slot[net[j].req] = "Ack"

\* C23: when the send in flight fails with a transport error the state
\* goes from ConnectionInUse straight to Terminated, the step issues
\* nothing towards the server, and no quit is issued on that connection
\* then or at any later time (closing a Terminated state issues none).
C23_IoErrorTerminatesWithoutQuit ==
    /\ [](connection.tag = "ConnectionInUse" =>
            poll_state_completion(connection, "Err").state = Terminated)
    /\ [][\A r \in Reqs :
            (r \notin IoFailedReqs /\ r \in IoFailedReqs') =>
                /\ connection = ConnectionInUse(r)
                /\ connection' = Terminated
                /\ net' = Append(net, NetEvent("io_error", r))]_vars
    /\ [](Seen("io_error") =>
            /\ connection = Terminated
            /\ ~Seen("quit")
            /\ NetOnClose(connection) = << >>
            /\ NetOnClose(terminate(connection).state) = << >>
            /\ NetOnClose(close_current(connection).state) = << >>)

C23_Witness ==
    /\ ~alive /\ connection = Terminated /\ ~Seen("quit")
    /\ \E r \in IoFailedReqs : \E q \in Reqs \ {r} : slot[q] = "Ack"

\* C24 (as claimed): a close or terminate request made in Idle, Connecting
\* or Connected moves the state to Closing with the requested flag.
C24_CloseEntersClosingFromIdle ==
    connection.tag \in {"Idle", "Connecting", "Connected"} =>
        /\ close_current(connection).state.tag = "Closing"
        /\ ~close_current(connection).state.is_termination
        /\ terminate(connection).state.tag = "Closing"
        /\ terminate(connection).state.is_termination

\* C24 (amended): a close or terminate request made in Connecting or
\* Connected moves the state to Closing with the requested flag; from
\* Connected the quit is issued by the call, from Connecting the call
\* issues nothing and the quit is issued by a later poll, the one in which
\* the connect part of the chained future resolves.  In Idle there is
\* nothing to quit: close_current leaves Idle, terminate gives Terminated,
\* neither passes through Closing nor issues anything.
C24_CloseEntersClosing ==
    /\ [][(/\ api'.calls = api.calls + 1
           /\ api'.op \in {"close_current", "terminate"}
           /\ connection.tag \in {"Idle", "Connecting", "Connected"})
            => LET t == api'.op = "terminate"
               IN  /\ api'.result = "Ok"
                   /\ connection.tag = "Connected" =>
                         /\ connection' = Closing("quit", t)
                         /\ net' = Append(net, NetEvent("quit", None))
                   /\ connection.tag = "Connecting" =>
                         /\ connection' =
                               Closing(IF connection.fut = "ok" THEN "ok_quit"
                                       ELSE "err_quit", t)
                         /\ net' = net
                   /\ connection.tag = "Idle" =>
                         /\ connection' = IF t THEN Terminated ELSE Idle
                         /\ net' = net]_vars
    /\ [][(connection.tag = "Closing" /\ connection.fut \in {"ok_quit", "err_quit"}
            /\ Count("quit")' > Count("quit"))
            => /\ api'.op = "poll_state_completion"
               /\ connection.fut = "ok_quit"
               /\ connection' \in {Closing("quit", connection.is_termination),
                                   Idle, Terminated}]_vars
    /\ [](connection.tag = "Closing" /\ connection.fut \in {"ok_quit", "err_quit"}
            => net # << >> /\ net[Len(net)].op = "connect")

C24_Witness ==
    /\ connection = Closing("quit", TRUE)
    /\ api.op = "poll_state_completion" /\ api.result = "NotReady"
    /\ api.calls = 3
    /\ net = << NetEvent("connect", None), NetEvent("quit", None) >>

\* C25: a poll of a Closing state whose quit completes gives Terminated
\* when the terminating flag is set and Idle when it is not, and reports
\* the same; a poll that finds the quit still pending leaves the state
\* Closing with the flag it had.
C25_ClosingCompletion ==
    /\ [][(/\ connection.tag = "Closing"
           /\ api'.calls = api.calls + 1
           /\ api'.op = "poll_state_completion")
            => IF api'.result = "NotReady"
               THEN /\ connection'.tag = "Closing"
                    /\ connection'.is_termination = connection.is_termination
               ELSE /\ connection' = IF connection.is_termination
                                     THEN Terminated ELSE Idle
                    /\ api'.result = IF connection.is_termination
                                     THEN "Terminated" ELSE "Idle"]_vars
    /\ [](connection.tag = "Closing" =>
            \A p \in FutPoll(connection) \ {"NotReady", "Chained"} :
                poll_state_completion(connection, p).state =
                    IF connection.is_termination THEN Terminated ELSE Idle)

C25_Witness ==
    /\ connection = Idle /\ Seen("quit")
    /\ api.op = "poll_state_completion" /\ api.result = "Idle"

\* C26: the driver calls send_mail only on a Connected state: whenever
\* the poll of the connection reports it usable the state is Connected and
\* send_mail accepts any request on it; a step that starts the send of a
\* request leaves the state ConnectionInUse for that request; and neither
\* expectation of the driver ever fails.
C26_SendOnlyWhenConnected ==
    /\ [](driver # "panic")
    /\ [](alive /\ driver = "running" =>
            \A p \in FutPoll(connection) :
                LET pr == poll_state_completion(connection, p)
                IN  pr.result \in {"Usable_None", "Usable_Ok", "Usable_Smtp"} =>
                        /\ pr.state = Connected
                        /\ \A r \in Reqs :
                              send_mail(pr.state, r) =
                                  [state |-> ConnectionInUse(r), result |-> "Ok"])
    /\ [][\A r \in Reqs :
            (r \notin SentReqs /\ r \in SentReqs') =>
                /\ connection.tag \in {"Connecting", "Connected", "ConnectionInUse"}
                /\ connection' = ConnectionInUse(r)
                /\ driver' = "running"]_vars

C26_Witness ==
    /\ driver = "running" /\ connection.tag = "ConnectionInUse"
    /\ Cardinality(SentReqs) >= 2
    /\ net[Len(net)] = NetEvent("send", connection.req)

\* C27: the driver starts a connect only from Idle and only when a peek
\* shows a pending item: the step that issues a connect starts in Idle,
\* ends in Connecting, and leaves the peeked request in the pipeline,
\* unsent and unanswered (the peek consumes nothing); while connecting
\* that request is still there.
C27_ConnectOnlyIdleWithWork ==
    /\ [][Count("connect")' > Count("connect") =>
            /\ connection = Idle
            /\ connection'.tag = "Connecting"
            /\ net' = Append(net, NetEvent("connect", None))
            /\ peeked' \in Reqs
            /\ peeked' \notin SentReqs'
            /\ slot'[peeked'] = "empty"
            /\ ServiceOwned' = ServiceOwned
            /\ slot' = slot /\ tx_of_pending' = tx_of_pending]_vars
    /\ [](connection.tag = "Connecting" => peeked \in Reqs)
    /\ [](Seen("connect") => net[1].op = "connect" /\ Accepted # {})

C27_Witness ==
    /\ connection.tag = "Connecting" /\ peeked \in Reqs
    /\ net = << NetEvent("connect", None) >>
    /\ queue # << >>

\* C28: a completed send outcome is written into the reply slot of the
\* request whose bytes were handed to the connection for that send and
\* into no other: the step that puts an acknowledgement or a rejection
\* into a slot starts in ConnectionInUse of that very request with its
\* slot pending and empty, the value is the one the server gave for it,
\* and whenever an outcome can be reported a pending slot is present.
C28_OutcomeToItsOwnSlot ==
    /\ [][\A r \in Reqs :
            (slot[r] \notin {"Ack", "Smtp"} /\ slot'[r] \in {"Ack", "Smtp"}) =>
                /\ connection = ConnectionInUse(r)
                /\ tx_of_pending = r
                /\ slot[r] = "empty"
                /\ slot'[r] = "Smtp" <=> r \in RejectedReqs'
                /\ \A q \in Reqs \ {r} :
                      slot'[q] \in {"Ack", "Smtp"} => slot'[q] = slot[q]]_vars
    /\ [](\A r \in Reqs : slot[r] \in {"Ack", "Smtp"} => r \in SentReqs)
    /\ [](alive /\ driver = "running" =>
            \A p \in FutPoll(connection) :
                poll_state_completion(connection, p).result
                        \in {"Usable_Ok", "Usable_Smtp"}
                    => tx_of_pending \in Reqs /\ tx_of_pending = connection.req)
    /\ [](driver \in {"running", "ok", "err_io", "err_connect"})

C28_Witness ==
    \E a, b \in Reqs :
        /\ a < b /\ slot[a] = "Smtp" /\ slot[b] = "Ack"
        /\ \E i, j \in 1 .. Len(net) :
              i < j /\ net[i] = NetEvent("send", b) /\ net[j] = NetEvent("send", a)

\* C29: when the driver, its connection usable, finds the pipeline ended
\* (no sender left, nothing queued, encoding or ready) it sets the stop
\* flag and quits: that step ends in Closing with the terminating flag
\* set and issues the quit; the Closing state is left only towards
\* Terminated, in the step in which the quit completes, and in that step
\* the driver resolves Ok.
C29_StreamEndTerminatingClose ==
    /\ [][(connection.tag # "Closing" /\ connection'.tag = "Closing") =>
            /\ connection.tag \in {"Connecting", "Connected", "ConnectionInUse"}
            /\ (connection.tag = "Connecting" => connection.fut = "ok")
            /\ connection' = Closing("quit", TRUE)
            /\ stop_flag' = TRUE
            /\ net'[Len(net')] = NetEvent("quit", None)
            /\ Count("quit")' = Count("quit") + 1
            /\ IngressClosed /\ queue' = << >> /\ encoding' = {}
            /\ ready' = << >> /\ peeked' = None /\ tx_of_pending' = None
            /\ driver' = "running"]_vars
    /\ [][(connection.tag = "Closing" /\ connection' # connection) =>
            /\ connection' = Terminated
            /\ driver = "running" /\ driver' = "ok"
            /\ stop_flag']_vars
    /\ [][(connection.tag = "Closing" /\ connection' = connection) =>
            driver' = driver]_vars

C29_Witness ==
    /\ driver = "ok" /\ connection = Terminated /\ stop_flag /\ ~stop_requested
    /\ Cardinality(SentReqs) >= 2
    /\ net[Len(net)] = NetEvent("quit", None)

\* C30: when the item taken from the pipeline is an error outcome, the
\* error is written into the reply slot of that request and of no other,
\* the connection is left Connected with nothing sent for the request (no
\* send, quit or connect is issued in the step), no slot is recorded as
\* pending, the item is gone from the pipeline and the driver keeps
\* running; requests whose encoding failed are never sent.
C30_ErrorItemLeavesConnection ==
    /\ [][\A r \in Reqs :
            (slot[r] # "Mail" /\ slot'[r] = "Mail") =>
                /\ ~enc_ok[r] /\ slot[r] = "empty"
                /\ connection.tag \in {"Connecting", "Connected", "ConnectionInUse"}
                /\ connection' = Connected
                /\ \/ net' = net
                   \/ /\ connection.tag = "ConnectionInUse"
                      /\ net' = Append(net, NetEvent("reject", connection.req))
                /\ tx_of_pending' = None
                /\ r \in ServiceOwned /\ r \notin ServiceOwned'
                /\ driver' = "running" /\ alive'
                /\ \A q \in Reqs \ {r} : slot'[q] = "Mail" => slot[q] = "Mail"]_vars
    /\ [](\A r \in Reqs : slot[r] = "Mail" => ~enc_ok[r] /\ r \notin SentReqs)
    /\ [](\A r \in SentReqs : enc_ok[r])

C30_Witness ==
    \E a, b \in Reqs :
        /\ slot[a] = "Mail" /\ ~enc_ok[a]
        /\ connection = ConnectionInUse(b) /\ Count("connect") = 1
        /\ net = << NetEvent("connect", None), NetEvent("send", b) >>

\* C31 (as claimed): from Idle a driver step either begins a
\* non-terminating close (the state stays Idle or becomes a Closing
\* without the terminating flag) or begins connecting.
C31_IdleClosesWithoutTerminating ==
    [][connection = Idle =>
        /\ connection'.tag \in {"Idle", "Connecting", "Closing"}
        /\ connection'.tag = "Closing" => ~connection'.is_termination]_vars

\* C31 (amended): from Idle the driver leaves the state in two ways only.
\* When the peek finds the pipeline ended (no sender left and nothing
\* queued, encoding, ready or peeked) it sets the stop flag and
\* terminates: the state goes straight to Terminated, nothing is issued.
\* When the peek finds an item it begins connecting, keeping the item.
\* While neither is the case the state stays Idle.
C31_IdlePeek ==
    /\ [][(connection = Idle /\ connection' # connection) =>
            \/ /\ connection' = Terminated
               /\ stop_flag' /\ net' = net
               /\ IngressClosed /\ ServiceOwned = {}
               /\ driver' = "running"
            \/ /\ connection'.tag = "Connecting"
               /\ peeked' \in Reqs
               /\ ServiceOwned # {}
               /\ stop_flag' = stop_flag
               /\ net' = Append(net, NetEvent("connect", None))]_vars
    /\ [][(connection = Idle /\ connection' = Idle) =>
            (driver' = driver /\ net' = net)]_vars
    /\ [](connection = Idle /\ ~stop_requested => ~stop_flag)

C31_Witness ==
    /\ connection = Terminated /\ driver = "running" /\ alive
    /\ stop_flag /\ ~stop_requested /\ net = << >>

\* C32 (as claimed): once the driver future has resolved, with Ok or with
\* an error, and the connection state is Terminated, the stop flag is set.
C32_StopFlagSetWhenResolved ==
    (driver \in {"ok", "err_io", "err_connect"} /\ connection = Terminated)
        => stop_flag

\* C33: while the stop flag is unset AutoClose answers a poll as its inner
\* receiver does and closes nothing; once the flag is set every poll
\* closes the receiver first: what was queued is still yielded, in queue
\* order, the stream ends only when the queue is empty, nothing is yielded
\* after the end, and a message submitted after the close is refused and
\* never yielded.
C33_AutoClose ==
    /\ [](~auto_close.ac.stop_handle =>
            /\ AutoClose_poll(auto_close.ac) = Receiver_poll(auto_close.ac.inner)
            /\ ~auto_close.ac.inner.closed)
    /\ [](auto_close.ac.stop_handle =>
            AutoClose_poll(auto_close.ac).inner.closed)
    /\ [](auto_close.yielded \o auto_close.ac.inner.queue = auto_close.accepted)
    /\ [](\A i \in 1 .. Len(auto_close.yielded) :
            auto_close.yielded[i] \notin auto_close.refused)
    /\ [](auto_close.refused # {} => auto_close.ac.inner.closed)
    /\ [][(auto_close.last # "End" /\ auto_close'.last = "End") =>
            /\ auto_close.ac.inner.queue = << >>
            /\ auto_close.ac.stop_handle \/ ~auto_close.ac.inner.senders]_vars
    /\ [][auto_close.last = "End" =>
            auto_close'.yielded = auto_close.yielded]_vars
    /\ [][(auto_close.ac.stop_handle /\ auto_close'.last # auto_close.last)
            => auto_close'.ac.inner.closed]_vars

C33_Witness ==
    /\ auto_close.ac.stop_handle /\ auto_close.last = "End"
    /\ auto_close.ac.inner.senders
    /\ Len(auto_close.yielded) >= 2 /\ auto_close.refused # {}

\* C34: when the caller has dropped the response future of a request before
\* the driver writes its outcome, the write fails, nothing is stored, and the
\* step ends as it would have with a successful write: for the outcome of a
\* send, the connection, tx_of_pending, the stop flag, the pipeline, the wire
\* log, the write counts and every other request's slot are those computed
\* from a successful write; for an encoding failure, the request leaves the
\* pipeline, the connection stays Connected, the pending slot stays empty and
\* the driver keeps running.
C34_FailedWriteDiscarded ==
    [][\A r \in Reqs :
         (ReceiverGone(r) /\ writes'[r] = writes[r] + 1) =>
            /\ slot'[r] = slot[r]
            /\ tx_of_pending = r =>
                 \E p \in FutPoll(connection) :
                    LET pr == poll_state_completion(connection, p)
                        n == poll_next_request(
                                 pr.state, None,
                                 WriteSlot(slot, r, MailResult(pr.result)),
                                 CountWrite(writes, r),
                                 net \o NetOnPoll(connection, p))
                    IN  /\ pr.result \in {"Usable_Ok", "Usable_Smtp"}
                        /\ connection' = n.connection
                        /\ tx_of_pending' = n.tx_of_pending
                        /\ stop_flag' = n.stop_flag
                        /\ driver' = n.driver
                        /\ net' = n.net
                        /\ writes' = n.writes
                        /\ << queue', encoding', ready', peeked' >>
                             = << n.queue, n.encoding, n.ready, n.peeked >>
                        /\ \A q \in Reqs \ {r} : slot'[q] = n.slot[q]
            /\ tx_of_pending # r =>
                    /\ rx_poll.item = r /\ ~enc_ok[r]
                    /\ driver' = "running"
                    /\ connection'.tag = "Connected"
                    /\ tx_of_pending' = None
                    /\ << queue', encoding', ready', peeked' >>
                         = << rx_poll.queue, rx_poll.encoding, rx_poll.ready,
                              rx_poll.peeked >>
                    /\ \A q \in Reqs \ {r} : slot'[q] = slot[q]
                                               \/ tx_of_pending = q]_vars

\* the outcome of a request whose caller is gone was discarded, and a request
\* sent after it was acknowledged to its caller
C34_Witness ==
    \E r \in Reqs, q \in Reqs :
        /\ ReceiverGone(r) /\ writes[r] = 1 /\ slot[r] = "empty"
        /\ slot[q] = "Ack" /\ observed[q] = "Ack"
        /\ \E i \in 1 .. Len(net), j \in 1 .. Len(net) :
              /\ i < j
              /\ net[i] = NetEvent("send", r)
              /\ net[j] = NetEvent("send", q)

\* C35: while the state stays Closing the terminating flag never goes from
\* true to false; terminate on a Closing state makes it terminating,
\* close_current leaves the flag as it was, and both return Ok, keep the
\* pending quit operation and issue nothing towards the server.
C35_ClosingFlagMonotone ==
    [][connection.tag = "Closing" =>
         /\ connection'.tag = "Closing" =>
                (connection.is_termination => connection'.is_termination)
         /\ (api'.calls = api.calls + 1
              /\ api'.op \in {"close_current", "terminate"}) =>
                /\ connection' = Closing(connection.fut,
                                         connection.is_termination
                                            \/ api'.op = "terminate")
                /\ api'.result = "Ok"
                /\ net' = net]_vars

\* close_current was called on a terminating Closing state, which still is
\* terminating, with a single quit on the wire
C35_Witness ==
    /\ connection.tag = "Closing" /\ connection.is_termination
    /\ api.op = "close_current" /\ api.result = "Ok"
    /\ Count("quit") = 1

\* C36: between driver steps the pending reply slot is present exactly when
\* the connection state is ConnectionInUse.
C36_PendingIffInUse ==
    alive => (tx_of_pending # None <=> connection.tag = "ConnectionInUse")

\* C37: after stop() was called on the handle returned by
\* MailService::stop_handle, the driver eventually reaches Terminated and
\* resolves.
C37_StopTerminatesDriver ==
    stop_requested ~> (connection = Terminated /\ driver # "running")

\* C39: when send_encoded_mails ends with a transport error on the input at
\* position f (1-based), the error value holds exactly the f - 1 results of
\* the inputs before it, in order, and the iterator stands right after f, so
\* that it yields exactly the inputs f + 1 .. N; the failing mail has no
\* result and is not yielded, and no input after f was put on the wire.
C39_TransportErrorValue ==
    batch.state = "err" =>
        LET f == batch.wire[Len(batch.wire)].id
        IN  /\ batch.wire[Len(batch.wire)].answer = "Io"
            /\ batch.mails[f].ok
            /\ Len(batch.results) = f - 1
            /\ batch.iter = f + 1
            /\ \A i \in 1 .. f - 1 :
                  IF ~batch.mails[i].ok
                  THEN batch.results[i] = SendErr("Mail", i)
                  ELSE \E k \in 1 .. Len(batch.wire) - 1 :
                          /\ batch.wire[k].id = i
                          /\ batch.results[i] =
                                IF batch.wire[k].answer = "Ok" THEN SendOk
                                ELSE SendErr("Smtp", i)
            /\ \A k \in 1 .. Len(batch.wire) : batch.wire[k].id <= f

\* the second of three mails hit the transport error after the first was
\* rejected by the server: one result, one input left
C39_Witness ==
    /\ batch.state = "err" /\ Len(batch.mails) = 3
    /\ batch.wire[Len(batch.wire)].id = 2
    /\ batch.results = << SendErr("Smtp", 1) >>
    /\ batch.iter = 3

\* C38: send_mails calls connect exactly when some request was encoded
\* successfully (and then once); when every request failed to encode it
\* resolves with one Err(Mail) result per request, in input order, having
\* issued no connect, no command and no quit.
C38_ConnectIffSomeEncoded ==
    batch.state # "encoded" =>
        /\ IF AllFailed(batch.mails)
           THEN /\ batch.state = "done"
                /\ batch.ops = << >> /\ batch.wire = << >>
                /\ batch.con = "none"
                /\ Len(batch.results) = Len(batch.mails)
                /\ \A i \in 1 .. Len(batch.mails) :
                      batch.results[i] = SendErr("Mail", i)
           ELSE /\ Len(batch.ops) >= 1 /\ batch.ops[1] = "connect"
                /\ \A k \in 2 .. Len(batch.ops) : batch.ops[k] # "connect"
        /\ batch.wire # << >> => batch.ops # << >>

\* two requests that both failed to encode: two results, nothing opened
C38_Witness ==
    /\ batch.state = "done" /\ Len(batch.mails) = 2
    /\ AllFailed(batch.mails)
    /\ batch.results = << SendErr("Mail", 1), SendErr("Mail", 2) >>
    /\ batch.ops = << >>

\* no request was ever submitted and no handle is left
NeverUsed == handles = 0 /\ \A r \in Reqs : subm[r] = "none"

\* C40: when every handle was dropped before any request was submitted, the
\* driver terminates without network activity: nothing is ever put on the
\* wire (no connect, no quit), the only change of the connection state is
\* from Idle directly to Terminated, made together with setting the stop
\* flag, the driver resolves only with Ok, in Terminated with the flag set,
\* and as long as it has not resolved a poll of it makes that progress.
C40_UnusedServiceTerminates ==
    /\ [](NeverUsed =>
            /\ net = << >>
            /\ connection \in {Idle, Terminated}
            /\ tx_of_pending = None
            /\ driver \in {"running", "ok"}
            /\ connection = Terminated => stop_flag
            /\ driver = "ok" => connection = Terminated
            /\ (alive /\ driver = "running") => ENABLED << DriverStep >>_vars)
    /\ [][NeverUsed =>
            /\ connection' # connection =>
                  (connection = Idle /\ connection' = Terminated /\ stop_flag')
            /\ driver' # driver =>
                  (connection = Terminated /\ driver' = "ok")]_vars

\* the driver of a service that was never used has resolved Ok
C40_Witness ==
    /\ NeverUsed /\ alive
    /\ connection = Terminated /\ driver = "ok"
    /\ stop_flag /\ ~stop_requested /\ net = << >>

====
